---- MODULE Spec2Model ----
(***************************************************************************)
(* Verification model of three parts of the autoascend agent:              *)
(*   - src/bin/heur.py      EnvWrapper (reset/step/get_summary) and        *)
(*                          single_simulation with its worker thread       *)
(*   - src/heur/fight_heur.py  the threat/opportunity score field          *)
(*   - src/heur/item.py     Inventory: update, guards, pickup, gather      *)
(* Each part has its own specification over its own variables; the other   *)
(* parts' variables are held at their idle values.                         *)
(***************************************************************************)
EXTENDS Integers, Sequences, FiniteSets, TLC

VARIABLES
    \* ---- EnvWrapper / single_simulation (src/bin/heur.py)
    mode,            \* "simulate" (worker thread + timeout), "run" (interactive), "profile"
    step_limit,      \* {} for None, {L} for a limit L
    attrs,           \* attributes reset() has created so far on the EnvWrapper
    step_count,
    end_reason,      \* a string, as its sequence of parts
    is_done,
    agent,           \* "None", "New" (just built) or "Ready" (has seen an observation)
    env_closed,      \* env.env.close() was called
    w_pc,            \* position of the thread that runs env.main
    w_done,          \* done flag local to the running EnvWrapper.step call
    w_obs,           \* what env.step returned in the running call
    m_pc,            \* position of the caller, single_simulation
    summary,         \* what get_summary returned, <<>> before
    env_calls,       \* history: env.step invocations since the last env.reset
    call_log,        \* history: [calls, count] at entry of the running step call
    late_steps,      \* history: env.step was invoked after the summary was taken
    timed_out,       \* history: the wall-clock timeout fired
    \* ---- score field (src/heur/fight_heur.py)
    walkable,        \* agent.current_level().walkable, a map Cells -> BOOLEAN
    priority,        \* the priority array being drawn on
    d_call,          \* the drawing call last applied, <<>> before any
    d_before,        \* the priority array before that call
    f_agent,         \* the agent build_priority_map is called with
    f_monsters,      \* agent.get_visible_monsters(), a sequence
    f_pc,            \* the statement of build_priority_map about to run
    f_i,             \* index of the monster the running loop is at
    f_actions,       \* what get_available_actions returned, <<>> before
    \* ---- the game, as far as the inventory code reads it
    tiles,           \* the items lying on each cell
    carried,         \* the items in the agent's pack
    blstats,         \* agent.blstats: the cell the agent stands on
    blocked,         \* the cells no path of agent.bfs() enters
    rng,             \* the state of agent.rng
    message,         \* agent.message after the last game step
    popup,           \* agent.popup after the last game step
    \* ---- Inventory (src/heur/item.py)
    role,            \* agent.character.role
    items,           \* Inventory.items
    items_below_me,
    letters_below_me,
    previous_blstats,    \* Inventory._previous_blstats
    stop_updating,       \* Inventory._stop_updating
    checked_item_pile,   \* agent.current_level().checked_item_pile
    interesting_item_glyphs,
    interesting_items,
    on_update,       \* agent.on_update, the registered checks
    \* ---- the running strategy
    strategy,        \* which strategy is being evaluated
    i_pc,            \* the statement about to run
    i_stack,         \* where the calls in progress return to
    cmd,             \* the command the next Agent.step sends
    assume,          \* get_items_below_me's assume_appropriate_message
    applicable,      \* what the last applicability check yielded
    to_pickup,       \* pickup_items_below_me's selection
    p_letters,       \* pickup's local `letters`
    target,          \* go_to_item's target cell
    \* ---- history
    steps,           \* game steps issued so far
    p_old,           \* the (letter, text) pairs recorded by pickup's guard
    chk,             \* the last applicability check and the state before it
    progress,        \* the running iteration has made progress
    \* ---- nested guard scopes
    g_scopes,        \* the open panic_if_items_below_me_change scopes
    g_exc,           \* the exception in flight, "none" if none
    g_log,           \* the last scope exit: on_update at entry and after exit
    g_entered,       \* scopes entered so far
    \* ---- an Item and a call of one of its methods
    it_item,         \* the Item, <<>> before its construction
    it_pc,           \* "new", "ready", "returned" or the exception raised
    it_call,         \* the method called and its arguments
    it_ret,          \* what the call returned
    \* ---- the line of shot of ranged_monster_priority
    s_at,            \* its y1, x1
    s_seen,          \* the cells whose glyph and walkability it has read
    s_ret,           \* its ret; <<>> is None
    \* ---- build_priority_map called again on the same monsters
    o_first,         \* what the first call was given and returned; <<>> before
    \* ---- run_simulations
    args,            \* seed, episodes, role, panic_on_errors
    character_tries, \* per seed: the characters prepare_env rejects first
    all_res,         \* the records; /workspace/nh_sim.json between runs
    done_seeds,
    refs,            \* the seed offsets of the submitted episodes
    seed_offset,
    r_pc             \* where run_simulations is

simVars == <<mode, step_limit, attrs, step_count, end_reason, is_done, agent,
             env_closed, w_pc, w_done, w_obs, m_pc, summary, env_calls,
             call_log, late_steps, timed_out>>

\* the variables of the other parts, as seen from each part
drawVars == <<walkable, priority, d_call, d_before>>

fieldVars == <<f_agent, f_monsters, f_pc, f_i, f_actions>>

gameVars == <<tiles, carried, blstats, blocked, rng, message, popup>>
inventoryVars == <<role, items, items_below_me, letters_below_me,
                   previous_blstats, stop_updating, checked_item_pile,
                   interesting_item_glyphs, interesting_items>>
controlVars == <<strategy, i_pc, i_stack, cmd, assume, applicable, to_pickup,
                 p_letters, target>>
historyVars == <<steps, p_old, chk, progress>>
invVars == <<gameVars, inventoryVars, controlVars, historyVars>>

guardVars == <<g_scopes, g_exc, g_log, g_entered>>

itemVars == <<it_item, it_pc, it_call, it_ret>>

scanVars == <<s_at, s_seen, s_ret>>

runVars == <<args, character_tries, all_res, done_seeds, refs, seed_offset, r_pc>>

nonSim == <<drawVars, fieldVars, invVars, on_update, guardVars, itemVars,
           scanVars, o_first,
           runVars>>
nonDraw == <<simVars, fieldVars, invVars, on_update, guardVars, itemVars,
           scanVars, o_first,
           runVars>>
nonScan == <<simVars, d_call, d_before, invVars, on_update, guardVars,
            itemVars, o_first,
           runVars>>
nonOrder == <<simVars, d_call, d_before, invVars, on_update, guardVars,
             itemVars, scanVars,
           runVars>>
nonField == <<nonOrder, o_first>>
nonInv == <<simVars, drawVars, fieldVars, guardVars, itemVars,
           scanVars, o_first,
           runVars>>
nonGuard == <<simVars, drawVars, fieldVars, invVars, itemVars,
           scanVars, o_first,
           runVars>>
nonRun == <<simVars, drawVars, fieldVars, invVars, on_update, guardVars,
           itemVars, scanVars, o_first>>
nonItem == <<simVars, drawVars, fieldVars, invVars, on_update, guardVars,
            scanVars, o_first,
           runVars>>

vars == <<simVars, drawVars, fieldVars, invVars, on_update, guardVars,
         itemVars, scanVars, o_first, runVars>>

\* ---------------------------------------------------------------- bounds
MaxSteps == 3
MaxStepLimit == 1
GridH == 3
GridW == 3
MaxMonsters == 2
LineLen == 3
MaxNest == 3
MaxScopes == 4
MaxObjs == 2
ActSize == 4
MaxEpisodes == 2
MaxRuns == 2

\* ------------------------------------------------------- strings as parts
\* A Python string is modelled as the sequence of the parts it was
\* concatenated from, so that startswith() is a test on the first parts.
EndStatusNames == {"DEATH", "ABORTED"}
NoReason == <<>>
TimeoutReason == <<"timeout">>
StepLimitReason == <<"steplimit">>
ExceptionReason == <<"exception: ", "traceback">>
NaturalReason(status) == <<status, ": ", "killed by a newt.">>

\* Python's `a or b` on strings
Or(a, b) == IF a = NoReason THEN b ELSE a

Modes == {"simulate", "run", "profile"}
EnvOutcomes == {"running", "garbled"} \cup EndStatusNames
StepLimits == {{}} \cup {{L} : L \in 0..MaxStepLimit}

\* ------------------------------------------------------------ EnvWrapper
\* a plausible slip in line 335: the final step of an episode is not counted
StepCountSkipsLast(count, done) == IF done THEN count ELSE count + 1

\* line 335: self.step_count += 1
StepCountAfter(count, done) == count + 1

\* a plausible slip in line 359: the limit overwrites the reason
ReasonOverwritten(reason) == StepLimitReason

\* line 359: self.end_reason = self.end_reason or 'steplimit'
ReasonAtLimit(reason) == Or(reason, StepLimitReason)

\* lines 355-357: info['end_status'].name + ': ' + <first sentence>
ReasonAtEnd(status) == NaturalReason(status)

\* EnvWrapper.__init__ : score, step_count and end_reason do not exist yet
SimStart ==
    /\ mode \in Modes
    /\ step_limit \in StepLimits
    /\ attrs = {}
    /\ step_count = 0
    /\ end_reason = NoReason
    /\ is_done = FALSE
    /\ agent = "None"
    /\ env_closed = FALSE
    /\ w_pc = "idle"
    /\ w_done = FALSE
    /\ w_obs = "running"
    /\ m_pc = "start"
    /\ summary = <<>>
    /\ env_calls = 0
    /\ call_log = [calls |-> 0, count |-> 0]
    /\ late_steps = FALSE
    /\ timed_out = FALSE

\* single_simulation lines 439-447: prepare_env, then env.main is started,
\* in a ThreadPool worker when timeout is not None, inline otherwise
StartMain ==
    /\ m_pc = "start"
    /\ m_pc' = "wait"
    /\ w_pc' = "reset_env"
    /\ UNCHANGED <<mode, step_limit, attrs, step_count, end_reason, is_done,
                   agent, env_closed, w_done, w_obs, summary, env_calls,
                   call_log, late_steps, timed_out,
                   nonSim>>

\* reset line 114: obs = self.env.reset(); the external call may raise
ResetEnv ==
    /\ w_pc = "reset_env"
    /\ \/ /\ w_pc' = "reset_counters"
          /\ env_calls' = 0
       \/ /\ w_pc' = "raised"
          /\ UNCHANGED env_calls
    /\ UNCHANGED <<mode, step_limit, attrs, step_count, end_reason, is_done,
                   agent, env_closed, w_done, w_obs, m_pc, summary,
                   call_log, late_steps, timed_out,
                   nonSim>>

\* reset lines 115-116: self.score = 0; self.step_count = 0
ResetCounters ==
    /\ w_pc = "reset_counters"
    /\ step_count' = 0
    /\ attrs' = attrs \cup {"step_count"}
    /\ w_pc' = "reset_reason"
    /\ UNCHANGED <<mode, step_limit, end_reason, is_done, agent, env_closed,
                   w_done, w_obs, m_pc, summary, env_calls, call_log,
                   late_steps, timed_out,
                   nonSim>>

\* reset line 117: self.end_reason = ''
ResetReason ==
    /\ w_pc = "reset_reason"
    /\ end_reason' = NoReason
    /\ attrs' = attrs \cup {"end_reason"}
    /\ w_pc' = "reset_flags"
    /\ UNCHANGED <<mode, step_limit, step_count, is_done, agent, env_closed,
                   w_done, w_obs, m_pc, summary, env_calls, call_log,
                   late_steps, timed_out,
                   nonSim>>

\* reset lines 118-129: is_done = False, then the assertions on the first
\* observation (assert_map, '@' under the agent), which may fail
ResetFlags ==
    /\ w_pc = "reset_flags"
    /\ is_done' = FALSE
    /\ w_pc' \in {"init_agent", "raised"}
    /\ UNCHANGED <<mode, step_limit, attrs, step_count, end_reason, agent,
                   env_closed, w_done, w_obs, m_pc, summary, env_calls,
                   call_log, late_steps, timed_out,
                   nonSim>>

\* main lines 100-102, _init_agent line 96
InitAgent ==
    /\ w_pc = "init_agent"
    /\ agent' = "New"
    /\ w_pc' = "agent_main"
    /\ UNCHANGED <<mode, step_limit, attrs, step_count, end_reason, is_done,
                   env_closed, w_done, w_obs, m_pc, summary, env_calls,
                   call_log, late_steps, timed_out,
                   nonSim>>

\* agent.main (line 103) calls EnvWrapper.step for its next primitive action
AgentCallsStep ==
    /\ w_pc = "agent_main"
    /\ step_count < MaxSteps
    /\ w_pc' = "step_pre"
    /\ w_done' = FALSE
    /\ call_log' = [calls |-> env_calls, count |-> step_count]
    /\ UNCHANGED <<mode, step_limit, attrs, step_count, end_reason, is_done,
                   agent, env_closed, w_obs, m_pc, summary, env_calls,
                   late_steps, timed_out,
                   nonSim>>

\* agent.main (line 103) raises something other than ReloadAgent
AgentRaises ==
    /\ w_pc = "agent_main"
    /\ w_pc' = "raised"
    /\ UNCHANGED <<mode, step_limit, attrs, step_count, end_reason, is_done,
                   agent, env_closed, w_done, w_obs, m_pc, summary, env_calls,
                   call_log, late_steps, timed_out,
                   nonSim>>

\* step lines 304-331: visualizer and, in interactive mode, get_action, which
\* raises ReloadAgent on F4 (lines 270-271); main catches it (105-111),
\* drops the agent and builds a new one without another reset
StepPre ==
    /\ w_pc = "step_pre"
    /\ \/ /\ w_pc' = "step_env"
          /\ UNCHANGED agent
       \/ /\ mode = "run"
          /\ agent' = "None"
          /\ w_pc' = "init_agent"
    /\ UNCHANGED <<mode, step_limit, attrs, step_count, end_reason, is_done,
                   env_closed, w_done, w_obs, m_pc, summary, env_calls,
                   call_log, late_steps, timed_out,
                   nonSim>>

\* step lines 333-335: env.step, score += reward, step_count += 1.
\* A closed environment refuses the call.
StepEnv ==
    /\ w_pc = "step_env"
    /\ \/ /\ env_closed
          /\ w_pc' = "raised"
          /\ UNCHANGED <<step_count, w_done, w_obs, env_calls, late_steps>>
       \/ /\ ~env_closed
          /\ \E o \in EnvOutcomes :
                /\ w_obs' = o
                /\ w_done' = (o # "running")
                /\ step_count' = StepCountAfter(step_count, o # "running")
          /\ env_calls' = env_calls + 1
          /\ late_steps' = (late_steps \/ summary # <<>>)
          /\ w_pc' = "step_done"
    /\ UNCHANGED <<mode, step_limit, attrs, end_reason, is_done, agent,
                   env_closed, m_pc, summary, call_log, timed_out,
                   nonSim>>

\* step lines 343-357: on done the end screen is split into words and the
\* end reason is built; a screen without the expected layout raises
StepDone ==
    /\ w_pc = "step_done"
    /\ IF ~w_done
         THEN /\ w_pc' = "step_limit"
              /\ UNCHANGED <<end_reason, attrs>>
         ELSE IF w_obs = "garbled"
           THEN /\ w_pc' = "raised"
                /\ UNCHANGED <<end_reason, attrs>>
           ELSE /\ end_reason' = ReasonAtEnd(w_obs)
                /\ attrs' = attrs \cup {"end_reason"}
                /\ w_pc' = "step_limit"
    /\ UNCHANGED <<mode, step_limit, step_count, is_done, agent, env_closed,
                   w_done, w_obs, m_pc, summary, env_calls, call_log,
                   late_steps, timed_out,
                   nonSim>>

\* step lines 358-362
StepLimit ==
    /\ w_pc = "step_limit"
    /\ IF \E L \in step_limit : step_count = L + 1
         THEN /\ end_reason' = ReasonAtLimit(end_reason)
              /\ w_done' = TRUE
              /\ w_pc' = "step_tail"
         ELSE IF \E L \in step_limit : step_count > L + 1
           THEN /\ w_pc' = "raised"
                /\ UNCHANGED <<end_reason, w_done>>
           ELSE /\ w_pc' = "step_tail"
                /\ UNCHANGED <<end_reason, w_done>>
    /\ UNCHANGED <<mode, step_limit, attrs, step_count, is_done, agent,
                   env_closed, w_obs, m_pc, summary, env_calls, call_log,
                   late_steps, timed_out,
                   nonSim>>

\* a plausible slip in lines 366-367: is_done is set whatever done is
StepTailAlwaysDone ==
    /\ w_pc = "step_tail"
    /\ is_done' = TRUE
    /\ w_pc' = IF w_done THEN "finished" ELSE "agent_main"
    /\ agent' = IF w_done THEN agent ELSE "Ready"
    /\ UNCHANGED <<mode, step_limit, attrs, step_count, end_reason,
                   env_closed, w_done, w_obs, m_pc, summary, env_calls,
                   call_log, late_steps, timed_out,
                   nonSim>>

\* step lines 364-374, and the agent's reaction to what step returned: on
\* done agent.main returns, and so does EnvWrapper.main; otherwise the agent
\* takes in the observation (its blstats exist from then on, cf. the
\* hasattr test of line 190)
StepTail ==
    /\ w_pc = "step_tail"
    /\ is_done' = (is_done \/ w_done)
    /\ w_pc' = IF w_done THEN "finished" ELSE "agent_main"
    /\ agent' = IF w_done THEN agent ELSE "Ready"
    /\ UNCHANGED <<mode, step_limit, attrs, step_count, end_reason,
                   env_closed, w_done, w_obs, m_pc, summary, env_calls,
                   call_log, late_steps, timed_out,
                   nonSim>>

\* ----------------------------------------------------- single_simulation
\* lines 443-447: env.main returned; fall through to line 454
MainReturned ==
    /\ m_pc = "wait"
    /\ w_pc = "finished"
    /\ m_pc' = "summary"
    /\ UNCHANGED <<mode, step_limit, attrs, step_count, end_reason, is_done,
                   agent, env_closed, w_pc, w_done, w_obs, summary, env_calls,
                   call_log, late_steps, timed_out,
                   nonSim>>

\* lines 450-452: except BaseException; the print reads env.step_count
MainException ==
    /\ m_pc = "wait"
    /\ w_pc = "raised"
    /\ end_reason' = ExceptionReason
    /\ attrs' = attrs \cup {"end_reason"}
    /\ m_pc' = IF "step_count" \in attrs THEN "summary" ELSE "raised"
    /\ UNCHANGED <<mode, step_limit, step_count, is_done, agent, env_closed,
                   w_pc, w_done, w_obs, summary, env_calls, call_log,
                   late_steps, timed_out,
                   nonSim>>

\* lines 444-449: pool.apply_async(env.main).get(timeout) runs out while the
\* worker is still inside env.main; ThreadPool.__exit__ does not stop a
\* running worker thread, which goes on executing env.main
MainTimeout ==
    /\ m_pc = "wait"
    /\ mode = "simulate"
    /\ w_pc \notin {"finished", "raised"}
    /\ timed_out' = TRUE
    /\ end_reason' = TimeoutReason
    /\ attrs' = attrs \cup {"end_reason"}
    /\ m_pc' = "summary"
    /\ UNCHANGED <<mode, step_limit, step_count, is_done, agent, env_closed,
                   w_pc, w_done, w_obs, summary, env_calls, call_log,
                   late_steps,
                   nonSim>>

\* get_summary lines 386-399 reads self.score, self.agent.blstats (and more
\* of the agent) and self.end_reason; a missing attribute or a None agent
\* raises
CanSummarize == "step_count" \in attrs /\ agent = "Ready" /\ "end_reason" \in attrs

\* line 455: summary = env.get_summary()
MainSummary ==
    /\ m_pc = "summary"
    /\ IF CanSummarize
         THEN /\ summary' = <<end_reason>>
              /\ m_pc' = "close"
         ELSE /\ m_pc' = "raised"
              /\ UNCHANGED summary
    /\ UNCHANGED <<mode, step_limit, attrs, step_count, end_reason, is_done,
                   agent, env_closed, w_pc, w_done, w_obs, env_calls,
                   call_log, late_steps, timed_out,
                   nonSim>>

\* lines 463-465: env.env.close(); return summary
MainClose ==
    /\ m_pc = "close"
    /\ env_closed' = TRUE
    /\ m_pc' = "returned"
    /\ UNCHANGED <<mode, step_limit, attrs, step_count, end_reason, is_done,
                   agent, w_pc, w_done, w_obs, summary, env_calls, call_log,
                   late_steps, timed_out,
                   nonSim>>

\* ----------------------------------------------------- EnvWrapper.step
\* step called by a caller of its own: reset and _init_agent are done, and
\* the caller may go on calling step after step returned done for the step
\* limit, the game itself still running.
StepStart ==
    /\ mode \in Modes
    /\ step_limit \in StepLimits
    /\ attrs = {"step_count", "end_reason"}
    /\ step_count = 0
    /\ end_reason = NoReason
    /\ is_done = FALSE
    /\ agent = "New"
    /\ env_closed = FALSE
    /\ w_pc = "agent_main"
    /\ w_done = FALSE
    /\ w_obs = "running"
    /\ m_pc = "wait"
    /\ summary = <<>>
    /\ env_calls = 0
    /\ call_log = [calls |-> 0, count |-> 0]
    /\ late_steps = FALSE
    /\ timed_out = FALSE

\* a step call after the one that returned done at the limit
StepAgain ==
    /\ w_pc = "finished"
    /\ w_obs = "running"
    /\ step_count < MaxSteps
    /\ w_pc' = "step_pre"
    /\ w_done' = FALSE
    /\ call_log' = [calls |-> env_calls, count |-> step_count]
    /\ UNCHANGED <<mode, step_limit, attrs, step_count, end_reason, is_done,
                   agent, env_closed, w_obs, m_pc, summary, env_calls,
                   late_steps, timed_out,
                   nonSim>>

\* lines 113-129: reset called again by the caller of step, between two
\* calls of step; env.reset (114) or an assertion on the new observation
\* (124, 127) may raise
Reset ==
    /\ w_pc \in {"agent_main", "finished"}
    /\ \/ /\ w_pc' = "raised"
          /\ UNCHANGED <<step_count, end_reason, is_done, env_calls>>
       \/ /\ step_count' = 0
          /\ end_reason' = NoReason
          /\ is_done' = FALSE
          /\ env_calls' = 0
          /\ w_pc' \in {"agent_main", "raised"}
    /\ UNCHANGED <<mode, step_limit, attrs, agent, env_closed, w_done, w_obs,
                   m_pc, summary, call_log, late_steps, timed_out,
                   nonSim>>

ResetNext ==
    \/ AgentCallsStep \/ StepAgain \/ StepPre \/ InitAgent \/ StepEnv
    \/ StepDone \/ StepLimit \/ StepTail \/ Reset

StepNext ==
    \/ AgentCallsStep \/ StepAgain \/ StepPre \/ InitAgent \/ StepEnv
    \/ StepDone \/ StepLimit \/ StepTail

SimNext ==
    \/ StartMain \/ ResetEnv \/ ResetCounters \/ ResetReason \/ ResetFlags
    \/ InitAgent \/ AgentCallsStep \/ AgentRaises \/ StepPre \/ StepEnv
    \/ StepDone \/ StepLimit \/ StepTail
    \/ MainReturned \/ MainException \/ MainTimeout \/ MainSummary
    \/ MainClose

\* ============================================================ score field
Cells == (0..(GridH - 1)) \X (0..(GridW - 1))

\* A float of the priority array: NaN or a number (every value the code
\* draws is an integer)
NaN == [nan |-> TRUE, v |-> 0]
Num(n) == [nan |-> FALSE, v |-> n]

Abs(n) == IF n < 0 THEN -n ELSE n
Max2(a, b) == IF a >= b THEN a ELSE b

\* priority[y1, x1] += value
FloatAdd(a, value) == IF a.nan THEN NaN ELSE Num(a.v + value)

\* a plausible slip in lines 29 and 48: a maximum that ignores NaN, as
\* numpy's fmax does
FloatMaxIgnoresNaN(a, value) ==
    IF a.nan THEN Num(value) ELSE IF value > a.v THEN Num(value) ELSE a

\* max(priority[y1, x1], value): Python's max keeps its first argument
\* unless a later one compares greater, and nothing compares greater than NaN
FloatMax(a, value) == IF a.nan THEN a ELSE IF value > a.v THEN Num(value) ELSE a

\* priority -= priority[y, x], element by element
FloatSub(a, b) == IF a.nan \/ b.nan THEN NaN ELSE Num(a.v - b.v)

ApplyOperation(operation, a, value) ==
    IF operation = "add" THEN FloatAdd(a, value) ELSE FloatMax(a, value)

\* line 23: max(abs(y1 - y), abs(x1 - x))
Chebyshev(y1, x1, y, x) == Max2(Abs(y1 - y), Abs(x1 - x))

\* lines 25 and 42: 0 <= y1 < priority.shape[0] and 0 <= x1 < priority.shape[1]
InBounds(prio, y1, x1) == <<y1, x1>> \in DOMAIN prio

\* a plausible slip in line 23: `>` for `!=`, which fills the whole square
RingSkipFilled(y1, x1, y, x, radius) == Chebyshev(y1, x1, y, x) > radius

\* line 23: if max(abs(y1 - y), abs(x1 - x)) != radius: continue
RingSkip(y1, x1, y, x, radius) == Chebyshev(y1, x1, y, x) # radius

\* lines 21-22: the (y1, x1) the two loops visit, in their order
SquareCells(y, x, radius) ==
    [i \in 1..((2 * radius + 1) * (2 * radius + 1)) |->
        <<y - radius + ((i - 1) \div (2 * radius + 1)),
          x - radius + ((i - 1) % (2 * radius + 1))>>]

RECURSIVE DrawAroundLoop(_, _, _, _, _, _, _, _)
DrawAroundLoop(prio, visit, i, y, x, value, radius, operation) ==
    IF i > Len(visit) THEN prio
    ELSE LET y1 == visit[i][1]
             x1 == visit[i][2]
             drawn == IF ~RingSkip(y1, x1, y, x, radius) /\ InBounds(prio, y1, x1)
                        THEN [prio EXCEPT ![<<y1, x1>>] =
                                 ApplyOperation(operation, @, value)]
                        ELSE prio
         IN  DrawAroundLoop(drawn, visit, i + 1, y, x, value, radius, operation)

_draw_around(prio, y, x, value, radius, operation) ==
    DrawAroundLoop(prio, SquareCells(y, x, radius), 1, y, x, value, radius,
                   operation)

\* lines 36-38: the eight directions, direction_y outer, direction_x inner
Directions ==
    <<<<-1, -1>>, <<-1, 0>>, <<-1, 1>>, <<0, -1>>, <<0, 1>>, <<1, -1>>,
      <<1, 0>>, <<1, 1>>>>

\* lines 39-50: one ray; i runs over range(radius), so it starts on (y, x)
\* itself; an out-of-bounds cell is passed over, a non-walkable one ends
\* the ray
RECURSIVE DrawRay(_, _, _, _, _, _, _, _, _)
DrawRay(prio, y, x, dir, i, value, walk, radius, operation) ==
    IF i >= radius THEN prio
    ELSE LET y1 == y + dir[1] * i
             x1 == x + dir[2] * i
         IN  IF InBounds(prio, y1, x1)
               THEN IF ~walk[<<y1, x1>>]
                      THEN prio
                      ELSE DrawRay([prio EXCEPT ![<<y1, x1>>] =
                                       ApplyOperation(operation, @, value)],
                                   y, x, dir, i + 1, value, walk, radius,
                                   operation)
               ELSE DrawRay(prio, y, x, dir, i + 1, value, walk, radius,
                            operation)

RECURSIVE DrawRays(_, _, _, _, _, _, _, _)
DrawRays(prio, y, x, d, value, walk, radius, operation) ==
    IF d > Len(Directions) THEN prio
    ELSE DrawRays(DrawRay(prio, y, x, Directions[d], 0, value, walk, radius,
                          operation),
                  y, x, d + 1, value, walk, radius, operation)

\* a plausible slip in lines 43-44: the walkable test is left out, so a ray
\* runs through its blockers
DrawRangedThroughWalls(prio, y, x, value, walk, radius, operation) ==
    DrawRays(prio, y, x, 1, value, [c \in DOMAIN walk |-> TRUE], radius,
             operation)

_draw_ranged(prio, y, x, value, walk, radius, operation) ==
    DrawRays(prio, y, x, 1, value, walk, radius, operation)

\* the values and radii the callers pass (lines 61-126), and radius 0
DrawValues == {-10, -9, 1, 2, 3}
DrawRadii == 0..2
Operations == {"add", "max"}

\* arrays a drawing call can meet: zeros (line 222), NaN at monsters
\* (line 57), earlier contributions
StartArrays ==
    {[c \in Cells |-> Num(0)],
     [c \in Cells |-> IF (c[1] + c[2]) % 3 = 0 THEN NaN
                      ELSE IF (c[1] + c[2]) % 3 = 1 THEN Num(2) ELSE Num(-9)],
     [c \in Cells |-> IF c[1] = c[2] THEN Num(3) ELSE Num(1)]}

DrawIdle ==
    /\ walkable = <<>>
    /\ priority = <<>>
    /\ d_call = <<>>
    /\ d_before = <<>>

\* the values and radii the callers pass to _draw_ranged (lines 82-126) are
\* -1, 2, 4, 6 and 5, 6; on this grid every radius from GridH on draws whole
\* rays, and the smaller ones are the cases where range(radius) ends a ray
RangedValues == {-1, 2, 4, 6}
RangedRadii == 0..GridH

\* the level is open, its middle cell is not walkable, or a whole column is
\* not
DrawWalkableMaps ==
    {[c \in Cells |-> TRUE], [c \in Cells |-> c # <<1, 1>>],
     [c \in Cells |-> c[2] # 1]}

DrawInit ==
    /\ walkable \in DrawWalkableMaps
    /\ priority \in StartArrays
    /\ d_call = <<>>
    /\ d_before = priority

CallDrawAround ==
    /\ d_call = <<>>
    /\ \E y \in 0..(GridH - 1), x \in 0..(GridW - 1), value \in DrawValues,
          radius \in DrawRadii, operation \in Operations :
          /\ d_call' = [fn |-> "_draw_around", y |-> y, x |-> x,
                        value |-> value, radius |-> radius,
                        operation |-> operation]
          /\ priority' = _draw_around(priority, y, x, value, radius, operation)
    /\ d_before' = priority
    /\ UNCHANGED <<walkable, nonDraw>>

CallDrawRanged ==
    /\ d_call = <<>>
    /\ \E y \in 0..(GridH - 1), x \in 0..(GridW - 1), value \in RangedValues,
          radius \in RangedRadii, operation \in Operations :
          /\ d_call' = [fn |-> "_draw_ranged", y |-> y, x |-> x,
                        value |-> value, radius |-> radius,
                        operation |-> operation]
          /\ priority' = _draw_ranged(priority, y, x, value, walkable, radius,
                                      operation)
    /\ d_before' = priority
    /\ UNCHANGED <<walkable, nonDraw>>

DrawNext == CallDrawAround \/ CallDrawRanged

\* ------------------------------------------------- build_priority_map
\* A monster name is the sequence of its characters, so that `in` between
\* strings is a search for a substring.
Contains(sub, name) ==
    \E i \in 1..(Len(name) - Len(sub) + 1) :
        SubSeq(name, i, i + Len(sub) - 1) = sub

Newt == <<"n", "e", "w", "t">>
Lichen == <<"l", "i", "c", "h", "e", "n">>
RedMold == <<"r", "e", "d", " ", "m", "o", "l", "d">>
BrownMold == <<"b", "r", "o", "w", "n", " ", "m", "o", "l", "d">>
FloatingEye == <<"f", "l", "o", "a", "t", "i", "n", "g", " ", "e", "y", "e">>
BlueJelly == <<"b", "l", "u", "e", " ", "j", "e", "l", "l", "y">>
Leprechaun == <<"l", "e", "p", "r", "e", "c", "h", "a", "u", "n">>
Nymph == <<"n", "y", "m", "p", "h">>
Jackal == <<"j", "a", "c", "k", "a", "l">>
GiantBat == <<"g", "i", "a", "n", "t", " ", "b", "a", "t">>
Mold == <<"m", "o", "l", "d">>

ONLY_RANGED_SLOW_MONSTERS == {FloatingEye, BlueJelly, BrownMold}
COLD_MONSTERS == {}
WEAK_MONSTERS == {Lichen, Newt}
WEIRD_MONSTERS == {Leprechaun, Nymph}

\* lines 88-90
FastNames ==
    {<<"b", "a", "t">>, <<"d", "o", "g">>, <<"c", "a", "t">>,
     <<"k", "i", "t", "t", "e", "n">>, <<"p", "o", "n", "y">>,
     <<"h", "o", "r", "s", "e">>, <<"b", "e", "e">>, <<"f", "o", "x">>}

is_monster_faster(ag, monster) ==
    \E sub \in FastNames : Contains(sub, monster.mname)

wielding_ranged_weapon(ag) ==
    \E i \in 1..Len(ag.items) : ag.items[i].launcher /\ ag.items[i].equipped

\* lines 63 and 102
IsPlainMold(mname) ==
    Contains(Mold, mname)
    /\ mname \notin (COLD_MONSTERS \cup ONLY_RANGED_SLOW_MONSTERS)

draw_monster_priority_positive(ag, monster, prio, walk) ==
    LET y == monster.y
        x == monster.x
        p0 == [prio EXCEPT ![<<y, x>>] = NaN]
        melee == _draw_around(_draw_around(p0, y, x, 2, 1, "max"),
                              y, x, 1, 2, "max")
    IN  IF monster.mname \in WEAK_MONSTERS THEN melee
        ELSE IF IsPlainMold(monster.mname)
          THEN IF ag.hitpoints >= 15 \/ ag.hitpoints = ag.max_hitpoints
                 THEN melee ELSE p0
        ELSE IF monster.mname \in ONLY_RANGED_SLOW_MONSTERS THEN p0
        ELSE LET p1 == IF ag.hitpoints > 8 /\ ~wielding_ranged_weapon(ag)
                         THEN _draw_around(p0, y, x, 3, 2, "max")
                         ELSE p0
             IN  IF wielding_ranged_weapon(ag)
                   THEN _draw_ranged(p1, y, x, 4, walk, 6, "max")
                   ELSE p1

draw_monster_priority_negative(ag, monster, prio, walk) ==
    LET y == monster.y
        x == monster.x
        noCombination == Len(ag.ranged_combinations) = 0
    IN  IF /\ ag.hitpoints <= 8
           /\ ~is_monster_faster(ag, monster)
           /\ monster.mname \notin WEAK_MONSTERS
           /\ monster.mname \notin ONLY_RANGED_SLOW_MONSTERS
          THEN LET p1 == _draw_around(prio, y, x, -10, 1, "add")
               IN  IF noCombination
                     THEN _draw_ranged(p1, y, x, -1, walk, 6, "add")
                     ELSE p1
        ELSE IF IsPlainMold(monster.mname)
          THEN IF ~noCombination
                 THEN _draw_ranged(prio, y, x, 2, walk, 5, "add")
                 ELSE prio
        ELSE IF monster.mname \in WEIRD_MONSTERS
          THEN LET p1 == _draw_around(prio, y, x, -10, 1, "add")
               IN  IF ~noCombination
                     THEN _draw_ranged(p1, y, x, 6, walk, 5, "add")
                     ELSE p1
        ELSE IF monster.mname \in ONLY_RANGED_SLOW_MONSTERS THEN prio
        ELSE IF monster.mname \notin WEAK_MONSTERS
          THEN LET p1 == _draw_around(prio, y, x, -9, 1, "add")
               IN  IF noCombination
                     THEN _draw_ranged(p1, y, x, -1, walk, 6, "add")
                     ELSE p1
        ELSE prio

\* line 228: priority[~walkable] = float('nan')
MaskUnwalkable(prio, walk) ==
    [c \in Cells |-> IF walk[c] THEN prio[c] ELSE NaN]

\* line 231: priority -= priority[agent.blstats.y, agent.blstats.x]
Rebase(prio, ag) ==
    LET own == prio[<<ag.y, ag.x>>]
    IN  [c \in Cells |-> FloatSub(prio[c], own)]

\* ------------------------------------------------ get_available_actions
\* a plausible slip in lines 146-147: the bonus is 5
MeleeSmallBonus(ag, monsters, monster) ==
    LET r1 == IF ag.hitpoints > 8 \/ is_monster_faster(ag, monster)
                THEN 1 + 5 ELSE 1
        r2 == IF wielding_ranged_weapon(ag) /\ ~is_monster_faster(ag, monster)
                THEN r1 - 6 ELSE r1
    IN  IF monster.mname \in ONLY_RANGED_SLOW_MONSTERS THEN r2 - 100 ELSE r2

\* lines 143-161
melee_monster_priority(ag, monsters, monster) ==
    LET r0 == 1
        r1 == IF ag.hitpoints > 8 \/ is_monster_faster(ag, monster)
                THEN r0 + 15 ELSE r0
        r2 == IF wielding_ranged_weapon(ag) /\ ~is_monster_faster(ag, monster)
                THEN r1 - 6 ELSE r1
        r3 == IF monster.mname \in COLD_MONSTERS
                THEN (IF ag.hitpoints < 20 /\ ag.hitpoints # ag.max_hitpoints
                        THEN r2 - 15 ELSE r2) - 1
                ELSE r2
    IN  IF monster.mname \in ONLY_RANGED_SLOW_MONSTERS THEN r3 - 100 ELSE r3

\* a plausible slip in lines 189-190: the direction loses its sign
SignOfMagnitude(n) == IF n = 0 THEN 0 ELSE 1

\* np.sign
Sign(n) == IF n > 0 THEN 1 ELSE IF n < 0 THEN -1 ELSE 0

\* line 166: the monster is on the agent's row, column or diagonal
Aligned(ag, y, x) ==
    ag.y = y \/ ag.x = x \/ Abs(ag.y - y) = Abs(ag.x - x)

\* a plausible slip in line 194: an obstacle costs 10
ScanLineCheap(ag, walk, y1, x1, y, x, dir_y, dir_x, ret) ==
    ret - 10 * Cardinality(
        {k \in 1..(Chebyshev(ag.y, ag.x, y, x) - 1) :
            LET c == <<ag.y + dir_y * k, ag.x + dir_x * k>>
            IN  c \in ag.pets \/ ~walk[c]})

\* lines 192-198: the cells from the one next to the agent up to the one
\* before the monster; the asserts of lines 197-198 hold on the way to a
\* monster that is on the level
RECURSIVE ScanLine(_, _, _, _, _, _, _, _, _)
ScanLine(ag, walk, y1, x1, y, x, dir_y, dir_x, ret) ==
    IF y1 = y /\ x1 = x THEN ret
    ELSE ScanLine(ag, walk, y1 + dir_y, x1 + dir_x, y, x, dir_y, dir_x,
                  IF <<y1, x1>> \in ag.pets \/ ~walk[<<y1, x1>>]
                    THEN ret - 100 ELSE ret)

\* a plausible slip in lines 177-179: the loadout is not looked at
RangedWithoutLoadout(ag, walk, y, x, mon) ==
    IF ~Aligned(ag, y, x) THEN <<>> ELSE <<11>>

\* lines 164-203; None is <<>>, a number n is <<n>>
ranged_monster_priority(ag, walk, y, x, mon) ==
    IF ~Aligned(ag, y, x) THEN <<>>
    ELSE LET dist == Max2(Abs(ag.x - x), Abs(ag.y - y))
             r1 == IF dist \in {1, 2} THEN 0 - 5 ELSE 0
             r2 == IF dist = 1 THEN r1 - 6 ELSE r1
         IN  IF Len(ag.ranged_combinations) = 0 THEN <<>>
             ELSE LET launcher == ag.ranged_combinations[1].launcher
                      r3 == IF launcher # 0 /\ ~ag.items[launcher].equipped
                              THEN r2 - 5 ELSE r2
                      dir_y == Sign(y - ag.y)
                      dir_x == Sign(x - ag.x)
                      r4 == ScanLine(ag, walk, ag.y + dir_y, ag.x + dir_x,
                                     y, x, dir_y, dir_x, r3)
                  IN  <<r4 + 11>>

\* line 188: assert y != agent.blstats.y or x != agent.blstats.x, reached
\* for an aligned monster when there is a ranged combination
RangedAssertFails(ag, monsters) ==
    /\ Len(ag.ranged_combinations) > 0
    /\ \E i \in 1..Len(monsters) : monsters[i].y = ag.y /\ monsters[i].x = ag.x

\* utils.adjacent
adjacent(p, q) == Chebyshev(p[1], p[2], q[1], q[2]) = 1

\* a plausible slip in lines 210-216: the ranged entry is appended first
MonsterActionsRangedFirst(ag, monsters, monster, walk) ==
    LET ranged_pr == ranged_monster_priority(ag, walk, monster.y, monster.x,
                                             monster.mname)
    IN  (IF ranged_pr # <<>>
           THEN <<[priority |-> ranged_pr[1], kind |-> "ranged",
                   y |-> monster.y, x |-> monster.x]>>
           ELSE <<>>)
        \o (IF adjacent(<<monster.y, monster.x>>, <<ag.y, ag.x>>)
              THEN <<[priority |-> melee_monster_priority(ag, monsters, monster),
                      kind |-> "melee", y |-> monster.y, x |-> monster.x]>>
              ELSE <<>>)

\* lines 209-216: the entries one monster adds
MonsterActions(ag, monsters, monster, walk) ==
    LET y == monster.y
        x == monster.x
        melee == IF adjacent(<<y, x>>, <<ag.y, ag.x>>)
                   THEN <<[priority |-> melee_monster_priority(ag, monsters,
                                                               monster),
                           kind |-> "melee", y |-> y, x |-> x]>>
                   ELSE <<>>
        ranged_pr == ranged_monster_priority(ag, walk, y, x, monster.mname)
        ranged == IF ranged_pr # <<>>
                    THEN <<[priority |-> ranged_pr[1], kind |-> "ranged",
                            y |-> y, x |-> x]>>
                    ELSE <<>>
    IN  melee \o ranged

RECURSIVE ActionsFrom(_, _, _, _)
ActionsFrom(ag, monsters, i, walk) ==
    IF i > Len(monsters) THEN <<>>
    ELSE MonsterActions(ag, monsters, monsters[i], walk)
         \o ActionsFrom(ag, monsters, i + 1, walk)

\* a plausible slip in lines 207-217: the entries are sorted by priority,
\* best first, which moves them out of the order of the monster list
ActionsBestFirst(ag, monsters, walk) ==
    LET l == ActionsFrom(ag, monsters, 1, walk)
    IN  SortSeq(l, LAMBDA a, b : a.priority > b.priority)

\* lines 206-217
get_available_actions(ag, monsters, walk) ==
    ActionsFrom(ag, monsters, 1, walk)

\* ---- the inputs
MonsterNames == {Newt, RedMold, BrownMold, Leprechaun, Jackal, GiantBat}
\* hitpoints on both sides of the thresholds 8 and 15, full or not
HitPoints == {<<5, 16>>, <<9, 9>>, <<9, 16>>, <<16, 16>>}

\* the launcher in the inventory, if any, and the (launcher, ammo)
\* combinations agent.get_ranged_combinations() finds; a combination names
\* its launcher by its place in items, 0 for None
Arms ==
    {[items |-> <<>>, ranged_combinations |-> <<>>],
     [items |-> <<[launcher |-> TRUE, equipped |-> FALSE]>>,
      ranged_combinations |-> <<[launcher |-> 1]>>],
     [items |-> <<[launcher |-> TRUE, equipped |-> TRUE]>>,
      ranged_combinations |-> <<[launcher |-> 1]>>]}

\* the level is open, or its middle cell is not walkable
WalkableMaps ==
    {[c \in Cells |-> TRUE], [c \in Cells |-> c # <<1, 1>>]}

AgentCells == {<<1, 1>>, <<2, 2>>}
MonsterCells == {<<0, 0>>, <<0, 1>>, <<1, 2>>}

Monsters == [y : 0..(GridH - 1), x : 0..(GridW - 1), mname : MonsterNames]

\* no two monsters stand on one cell
MonsterLists ==
    UNION {{l \in [1..n -> Monsters] :
               /\ \A i \in 1..n : <<l[i].y, l[i].x>> \in MonsterCells
               /\ \A i, j \in 1..n :
                     i # j => <<l[i].y, l[i].x>> # <<l[j].y, l[j].x>>}
           : n \in 0..MaxMonsters}

FieldIdle ==
    /\ f_agent = <<>>
    /\ f_monsters = <<>>
    /\ f_pc = "idle"
    /\ f_i = 0
    /\ f_actions = <<>>

FieldInit ==
    /\ walkable \in WalkableMaps
    /\ \E pos \in AgentCells, hp \in HitPoints, arms \in Arms :
          f_agent = [y |-> pos[1], x |-> pos[2], hitpoints |-> hp[1],
                     max_hitpoints |-> hp[2], items |-> arms.items,
                     ranged_combinations |-> arms.ranged_combinations,
                     pets |-> {}]
    /\ f_monsters \in MonsterLists
    /\ priority = <<>>
    /\ f_pc = "zeros"
    /\ f_i = 0
    /\ f_actions = <<>>
    /\ d_call = <<>>
    /\ d_before = <<>>

\* lines 221-223
FieldZeros ==
    /\ f_pc = "zeros"
    /\ priority' = [c \in Cells |-> Num(0)]
    /\ f_pc' = "positive"
    /\ f_i' = 1
    /\ UNCHANGED <<walkable, f_agent, f_monsters, f_actions, nonField>>

\* lines 224-225
LoopPositive ==
    /\ f_pc = "positive"
    /\ IF f_i <= Len(f_monsters)
         THEN /\ priority' = draw_monster_priority_positive(
                                 f_agent, f_monsters[f_i], priority, walkable)
              /\ f_i' = f_i + 1
              /\ f_pc' = f_pc
         ELSE /\ f_pc' = "negative"
              /\ f_i' = 1
              /\ UNCHANGED priority
    /\ UNCHANGED <<walkable, f_agent, f_monsters, f_actions, nonField>>

\* lines 226-227
LoopNegative ==
    /\ f_pc = "negative"
    /\ IF f_i <= Len(f_monsters)
         THEN /\ priority' = draw_monster_priority_negative(
                                 f_agent, f_monsters[f_i], priority, walkable)
              /\ f_i' = f_i + 1
              /\ f_pc' = f_pc
         ELSE /\ f_pc' = "mask"
              /\ f_i' = 0
              /\ UNCHANGED priority
    /\ UNCHANGED <<walkable, f_agent, f_monsters, f_actions, nonField>>

\* line 228
FieldMask ==
    /\ f_pc = "mask"
    /\ priority' = MaskUnwalkable(priority, walkable)
    /\ f_pc' = "rebase"
    /\ UNCHANGED <<walkable, f_agent, f_monsters, f_i, f_actions, nonField>>

\* lines 231-233
FieldRebase ==
    /\ f_pc = "rebase"
    /\ priority' = Rebase(priority, f_agent)
    /\ IF RangedAssertFails(f_agent, f_monsters)
         THEN f_pc' = "AssertionError" /\ UNCHANGED f_actions
         ELSE /\ f_pc' = "returned"
              /\ f_actions' = get_available_actions(f_agent, f_monsters,
                                                     walkable)
    /\ UNCHANGED <<walkable, f_agent, f_monsters, f_i, nonField>>

FieldNext ==
    \/ FieldZeros \/ LoopPositive \/ LoopNegative \/ FieldMask \/ FieldRebase

\* ---- build_priority_map on one level twice, the second time with
\* agent.get_visible_monsters() giving the same monsters in another order
Reorderings(list) ==
    {l \in [1..Len(list) -> {list[i] : i \in 1..Len(list)}] :
        \A i \in 1..Len(list) : \E j \in 1..Len(list) : l[j] = list[i]}

\* the first call is given the monsters row by row; every order of
\* them is a reordering of that one
OrderInit ==
    /\ FieldInit
    /\ \A i, j \in 1..Len(f_monsters) :
          i < j => f_monsters[i].y * GridW + f_monsters[i].x
                      < f_monsters[j].y * GridW + f_monsters[j].x

\* line 223 of the second call
BuildAgain ==
    /\ f_pc = "returned"
    /\ o_first = <<>>
    /\ o_first' = <<[monsters |-> f_monsters, priority |-> priority,
                     actions |-> f_actions]>>
    /\ f_monsters' \in Reorderings(f_monsters)
    /\ priority' = <<>>
    /\ f_actions' = <<>>
    /\ f_pc' = "zeros"
    /\ f_i' = 0
    /\ UNCHANGED <<walkable, f_agent, nonOrder>>

OrderNext == FieldNext \/ BuildAgain

\* ---- get_available_actions on its own, on a level of ActSize x ActSize
\* cells with pets, walls and every kind of ranged loadout
ActCells == (0..(ActSize - 1)) \X (0..(ActSize - 1))

\* where a monster stands: next to the agent (which is on <<0, 0>> or
\* <<1, 0>>), on its row, column or diagonal at distance 2 or 3, or
\* on none of them
ActMonsterCells == {<<0, 1>>, <<0, 3>>, <<1, 2>>, <<2, 2>>, <<3, 3>>}

\* a plain monster, one that is only to be fought at range, a faster one
ActMonsterNames == {Newt, FloatingEye, GiantBat}

\* Arms, and also: ammunition that is thrown (a combination without a
\* launcher), and a wielded launcher without ammunition
ActArms ==
    Arms \cup
    {[items |-> <<>>, ranged_combinations |-> <<[launcher |-> 0]>>],
     [items |-> <<[launcher |-> TRUE, equipped |-> TRUE]>>,
      ranged_combinations |-> <<>>]}

ActMonsterLists ==
    UNION {{l \in [1..n -> [y : 0..(ActSize - 1), x : 0..(ActSize - 1),
                            mname : ActMonsterNames]] :
               /\ \A i \in 1..n : <<l[i].y, l[i].x>> \in ActMonsterCells
               /\ \A i, j \in 1..n :
                     i # j => <<l[i].y, l[i].x>> # <<l[j].y, l[j].x>>}
           : n \in 0..MaxMonsters}

\* a cell between the agent and a monster can be a wall or hold a pet; the
\* hitpoints are on both sides of the threshold 8
ActInit ==
    /\ \E walls \in {{}, {<<1, 1>>}, {<<0, 2>>}} :
          walkable = [c \in ActCells |-> c \notin walls]
    /\ \E pos \in {<<0, 0>>, <<1, 0>>}, hp \in {<<8, 16>>, <<9, 16>>},
          arms \in ActArms, pets \in {{}, {<<1, 1>>}} :
          f_agent = [y |-> pos[1], x |-> pos[2], hitpoints |-> hp[1],
                     max_hitpoints |-> hp[2], items |-> arms.items,
                     ranged_combinations |-> arms.ranged_combinations,
                     pets |-> pets]
    /\ f_monsters \in ActMonsterLists
    /\ priority = <<>>
    /\ f_pc = "actions"
    /\ f_i = 0
    /\ f_actions = <<>>
    /\ d_call = <<>>
    /\ d_before = <<>>

\* ------------------------------------------------------ the line of shot
\* ranged_monster_priority statement by statement, for one monster anywhere
\* on the level, the agent's own cell included
ScanIdle ==
    /\ s_at = <<>>
    /\ s_seen = <<>>
    /\ s_ret = <<>>

ScanInit ==
    /\ \E walls \in {{}, {<<1, 1>>}, {<<0, 2>>}} :
          walkable = [c \in ActCells |-> c \notin walls]
    /\ \E pos \in ActCells, arms \in ActArms, pets \in {{}, {<<1, 1>>}} :
          f_agent = [y |-> pos[1], x |-> pos[2], hitpoints |-> 9,
                     max_hitpoints |-> 16, items |-> arms.items,
                     ranged_combinations |-> arms.ranged_combinations,
                     pets |-> pets \ {pos}]
    /\ \E c \in ActCells : f_monsters = <<[y |-> c[1], x |-> c[2], mname |-> Newt]>>
    /\ priority = <<>>
    /\ f_pc = "ranged"
    /\ f_i = 0
    /\ f_actions = <<>>
    /\ d_call = <<>>
    /\ d_before = <<>>
    /\ ScanIdle /\ o_first = <<>>

\* lines 164-191: up to the first cell of the line
RangedStart ==
    /\ f_pc = "ranged"
    /\ LET y == f_monsters[1].y
           x == f_monsters[1].x
           dist == Max2(Abs(f_agent.x - x), Abs(f_agent.y - y))
           r1 == IF dist \in {1, 2} THEN 0 - 5 ELSE 0
           r2 == IF dist = 1 THEN r1 - 6 ELSE r1
       IN  IF ~Aligned(f_agent, y, x) \/ Len(f_agent.ranged_combinations) = 0
             THEN /\ f_pc' = "returned"
                  /\ UNCHANGED <<s_at, s_ret>>
           ELSE IF y = f_agent.y /\ x = f_agent.x
             THEN /\ f_pc' = "AssertionError"
                  /\ UNCHANGED <<s_at, s_ret>>
           ELSE LET launcher == f_agent.ranged_combinations[1].launcher
                IN  /\ s_ret' = <<IF launcher # 0 /\ ~f_agent.items[launcher].equipped
                                    THEN r2 - 5 ELSE r2>>
                    /\ s_at' = <<f_agent.y + Sign(y - f_agent.y),
                                 f_agent.x + Sign(x - f_agent.x)>>
                    /\ f_pc' = "scan"
    /\ UNCHANGED <<walkable, priority, f_agent, f_monsters, f_i, f_actions,
                   s_seen, nonScan>>

\* lines 192-198: one pass of the while loop
ScanStep ==
    /\ f_pc = "scan"
    /\ s_at # <<f_monsters[1].y, f_monsters[1].x>>
    /\ s_seen' = Append(s_seen, s_at)
    /\ s_ret' = IF s_at \in f_agent.pets \/ ~walkable[s_at]
                  THEN <<s_ret[1] - 100>> ELSE s_ret
    /\ s_at' = <<s_at[1] + Sign(f_monsters[1].y - f_agent.y),
                 s_at[2] + Sign(f_monsters[1].x - f_agent.x)>>
    /\ f_pc' = IF s_at' \in ActCells THEN "scan" ELSE "AssertionError"
    /\ UNCHANGED <<walkable, priority, f_agent, f_monsters, f_i, f_actions,
                   nonScan>>

\* lines 192 and 200-203: the line ends on the monster
ScanEnd ==
    /\ f_pc = "scan"
    /\ s_at = <<f_monsters[1].y, f_monsters[1].x>>
    /\ s_ret' = <<s_ret[1] + 11>>
    /\ f_pc' = "returned"
    /\ UNCHANGED <<walkable, priority, f_agent, f_monsters, f_i, f_actions,
                   s_at, s_seen, nonScan>>

ScanNext == RangedStart \/ ScanStep \/ ScanEnd

\* lines 206-217, called on its own
GetAvailableActions ==
    /\ f_pc = "actions"
    /\ IF RangedAssertFails(f_agent, f_monsters)
         THEN f_pc' = "AssertionError" /\ UNCHANGED f_actions
         ELSE /\ f_pc' = "listed"
              /\ f_actions' = get_available_actions(f_agent, f_monsters,
                                                     walkable)
    /\ UNCHANGED <<walkable, priority, f_agent, f_monsters, f_i, nonField>>

ActNext == GetAvailableActions

\* ============================================================== inventory
\* The level is a corridor of LineLen cells; the game is static: only the
\* agent's commands change it.
Pos == 0..(LineLen - 1)

\* agent.rng is a seeded generator: a draw is a function of its state
Seeds == 0..1
randint(state, n) == state % n
Advance(state) == (state + 1) % Cardinality(Seeds)

None == <<>>
Some(v) == <<v>>
NoLetter == "None"

\* what can lie on a cell, in the order the pickup menu lists it
ItemOrder == <<"arrow", "elven arrow", "dagger", "rock">>
ItemNames == {ItemOrder[i] : i \in 1..Len(ItemOrder)}
MenuLetters == <<"a", "b", "c", "d">>
Category(name) == IF name = "rock" THEN "Gems/Stones" ELSE "Weapons"

\* lines 556-557: the glyphs a ranger is after (arrows), and lines 561-564
\* the objects those glyphs can be
RangerGlyphs == {"arrow", "elven arrow"}
possible_objects_from_glyph(glyph) == {glyph}

\* the items of a tile in menu order, and the letters the menu gives them
MenuOf(tile) == SelectSeq(ItemOrder, LAMBDA n : n \in tile)
LettersOf(menu) == [i \in 1..Len(menu) |-> MenuLetters[i]]

\* the lines of the 'Pick up what?' popup below its title: a category
\* header before the first item of each category
RECURSIVE MenuLines(_, _, _)
MenuLines(menu, i, category) ==
    IF i > Len(menu) THEN <<>>
    ELSE LET item == [header |-> FALSE, letter |-> MenuLetters[i],
                      text |-> menu[i]]
             rest == MenuLines(menu, i + 1, Category(menu[i]))
         IN  IF Category(menu[i]) # category
               THEN <<[header |-> TRUE, letter |-> "",
                       text |-> Category(menu[i])]>> \o <<item>> \o rest
               ELSE <<item>> \o rest

NoMessage == [text |-> "", item |-> ""]
NoPopup == [title |-> "", lines |-> <<>>]

\* the commands the inventory code sends
LOOK == [name |-> "LOOK", letters |-> <<>>, dir |-> 0, site |-> "look"]
PICKUP(letters, site) ==
    [name |-> "PICKUP", letters |-> letters, dir |-> 0, site |-> site]
MOVE(dir) == [name |-> "MOVE", letters |-> <<>>, dir |-> dir, site |-> "move"]
NoCommand == [name |-> "", letters |-> <<>>, dir |-> 0, site |-> ""]

\* what the game shows of the cell the agent stands on after it arrived
\* there or looked
Seen(tile) ==
    IF Cardinality(tile) = 0 THEN
        [message |-> NoMessage, popup |-> NoPopup]
    ELSE IF Cardinality(tile) = 1 THEN
        [message |-> [text |-> "You see here ", item |-> MenuOf(tile)[1]],
         popup |-> NoPopup]
    ELSE
        [message |-> NoMessage,
         popup |-> [title |-> "Things that are here:", lines |-> <<>>]]

\* the items a PICKUP command takes from a tile: the only item at once,
\* from a pile those whose menu letter follows the command
Taken(tile, letters) ==
    IF Cardinality(tile) = 1 THEN tile
    ELSE {MenuOf(tile)[i] : i \in {j \in 1..Len(MenuOf(tile)) :
              \E k \in 1..Len(letters) : letters[k] = MenuLetters[j]}}

\* the game's response to one command
Respond(c, tile) ==
    IF c.name = "LOOK" THEN
        IF tile = {}
          THEN [message |-> [text |-> "You see no objects here.", item |-> ""],
                popup |-> NoPopup]
          ELSE Seen(tile)
    ELSE IF c.name = "PICKUP" THEN
        IF tile = {}
          THEN [message |-> [text |-> "There is nothing here to pick up.",
                             item |-> ""],
                popup |-> NoPopup]
        ELSE IF Cardinality(tile) = 1 \/ c.letters # <<>>
          THEN [message |-> NoMessage, popup |-> NoPopup]
          ELSE [message |-> NoMessage,
                popup |-> [title |-> "Pick up what?",
                           lines |-> MenuLines(MenuOf(tile), 1, "")]]
    ELSE Seen(tile)

\* lines 427-428: [(l, i.text) for i, l in zip(items, letters)]
ItemPairs(its, letters) ==
    [i \in 1..(IF Len(its) < Len(letters) THEN Len(its) ELSE Len(letters)) |->
        <<letters[i], its[i]>>]

\* line 425-430: the check panic_if_items_below_me_change registers
ItemsChanged(fun) ==
    ItemPairs(fun.old_items, fun.old_letters)
        # ItemPairs(items_below_me[1], letters_below_me[1])

\* the check panic_if_position_changes registers
PositionChanged(fun) == fun.old_pos # blstats

\* a slip in line 440: the oldest check is dropped, not this scope's
RemoveFirstFun(list, fun) == Tail(list)

\* line 440: on_update.pop(on_update.index(fun))
RemoveFun(list, fun) ==
    LET index == CHOOSE i \in 1..Len(list) :
                     list[i] = fun /\ \A j \in 1..(i - 1) : list[j] # fun
    IN  SubSeq(list, 1, index - 1) \o SubSeq(list, index + 1, Len(list))

\* a slip in line 661: the whole level is marked
MarkEveryPile(checked, pos) == [c \in DOMAIN checked |-> TRUE]

\* line 661: checked_item_pile[blstats.y, blstats.x] = True
MarkCheckedPile(checked, pos) == [checked EXCEPT ![pos] = TRUE]

\* lines 666-670: an item read from text has no glyph, so it qualifies
\* when every object it can be is an interesting one
Qualifies(name, objects) == {name} \cap objects = {name}

\* lines 636-638 and 643-644: the candidate cells of go_to_item; the cell
\* the agent stands on shows the agent, not what lies there
Distance(a, b) == Abs(a - b)

\* agent.bfs() (not in src/): the length of the shortest walk to a cell, -1
\* where no walk leads
bfs(c) ==
    IF \E b \in blocked : (blstats < b /\ b <= c) \/ (c <= b /\ b < blstats)
      THEN -1
      ELSE Distance(blstats, c)

\* the mask without line 644
CandidatesUnreached ==
    {c \in Pos :
        /\ c # blstats
        /\ \/ Cardinality(tiles[c]) > 1 /\ ~checked_item_pile[c]
           \/ tiles[c] # {} /\ MenuOf(tiles[c])[1] \in interesting_item_glyphs}

\* lines 636-638 and 643-644: the mask of go_to_item
Candidates ==
    {c \in Pos :
        /\ c # blstats
        /\ \/ Cardinality(tiles[c]) > 1 /\ ~checked_item_pile[c]
           \/ tiles[c] # {} /\ MenuOf(tiles[c])[1] \in interesting_item_glyphs
        /\ bfs(c) # -1}

\* line 649: the candidates at the least distance
Nearest ==
    {c \in Candidates : \A o \in Candidates : bfs(c) <= bfs(o)}

\* line 649: nonzero() lists them in the order of the map
NearestInOrder ==
    [i \in 1..Cardinality(Nearest) |->
        CHOOSE c \in Nearest : Cardinality({o \in Nearest : o < c}) = i - 1]

Call(label, return) ==
    /\ i_pc' = label
    /\ i_stack' = <<return>> \o i_stack

Return ==
    /\ i_pc' = Head(i_stack)
    /\ i_stack' = Tail(i_stack)

\* the check a scope registers is a new object; it is told from the other
\* registered ones by its id
PositionFun ==
    [kind |-> "position", id |-> Len(on_update) + 1, old_items |-> <<>>,
     old_letters |-> <<>>, old_pos |-> blstats]

\* lines 422-432
ItemsFun ==
    [kind |-> "items", id |-> Len(on_update) + 1,
     old_items |-> items_below_me[1], old_letters |-> letters_below_me[1],
     old_pos |-> blstats]

\* the fun of the innermost open scope of a kind
OwnFun(kind) ==
    on_update[CHOOSE i \in 1..Len(on_update) :
                  /\ on_update[i].kind = kind
                  /\ \A j \in (i + 1)..Len(on_update) : on_update[j].kind # kind]

Fires(fun) ==
    IF fun.kind = "items" THEN ItemsChanged(fun) ELSE PositionChanged(fun)

\* lines 476-486: the items the message tells of
MessageItems ==
    IF message.text = "You see no objects here." THEN <<>>
    ELSE IF message.text = "You see here " THEN <<message.item>>
    ELSE <<>>

\* lines 490-494
NothingToPickUp ==
    {"You cannot reach the bottom of the pit.",
     "There is nothing here to pick up.",
     " solidly fixed to the floor.",
     "You read:",
     "You don't see anything in here to pick up."}

\* lines 500-526: the lines below 'Pick up what?' that are no category
\* header; without the popup (lines 495-496) there are none
MenuItemLines ==
    IF popup.title = "Pick up what?"
      THEN SelectSeq(popup.lines, LAMBDA line : ~line.header)
      ELSE <<>>
MenuItems == [i \in 1..Len(MenuItemLines) |-> MenuItemLines[i].text]
MenuItemLetters == [i \in 1..Len(MenuItemLines) |-> MenuItemLines[i].letter]

\* list.index: the first position of v in list, 0 if it is not in it
IndexIn(list, v) ==
    IF \E i \in 1..Len(list) : list[i] = v
      THEN CHOOSE i \in 1..Len(list) :
               list[i] = v /\ \A j \in 1..(i - 1) : list[j] # v
      ELSE 0

\* line 538
LettersFor(selection) ==
    [i \in 1..Len(selection) |->
        letters_below_me[1][IndexIn(items_below_me[1], selection[i])]]

\* line 539: len(set(letters)) == len(letters)
Distinct(list) ==
    \A i, j \in 1..Len(list) : i # j => list[i] # list[j]

\* what an applicability check could have changed
Snapshot ==
    [tiles |-> tiles, carried |-> carried, blstats |-> blstats,
     message |-> message, popup |-> popup, items |-> items,
     items_below_me |-> items_below_me,
     letters_below_me |-> letters_below_me,
     previous_blstats |-> previous_blstats, stop_updating |-> stop_updating,
     checked_item_pile |-> checked_item_pile,
     interesting_item_glyphs |-> interesting_item_glyphs,
     interesting_items |-> interesting_items, on_update |-> on_update]

\* the agent integrates its first observation (Agent, not in src/)
Boot ==
    /\ i_pc = "boot"
    /\ Call("update", "eval")
    /\ UNCHANGED <<tiles, carried, blstats, message, popup, role, items,
                  items_below_me, letters_below_me, previous_blstats,
                  stop_updating, checked_item_pile,
                  interesting_item_glyphs, interesting_items, on_update,
                  strategy, cmd, assume, applicable, to_pickup, p_letters,
                  target, steps, p_old, chk, progress,
                  blocked, rng, nonInv>>

\* a plausible slip in line 400: the message is never assumed, so every
\* re-read sends LOOK
UpdateAlwaysLooks ==
    /\ i_pc = "update"
    /\ items' = carried
    /\ IF stop_updating THEN
          /\ Return
          /\ UNCHANGED <<assume, previous_blstats, items_below_me,
                         letters_below_me, stop_updating>>
       ELSE IF previous_blstats = None \/ previous_blstats # Some(blstats) THEN
          /\ assume' = FALSE
          /\ previous_blstats' = Some(blstats)
          /\ items_below_me' = None
          /\ letters_below_me' = None
          /\ stop_updating' = TRUE
          /\ Call("get_items_below_me", "update_finally")
       ELSE
          /\ IF items_below_me # None /\ letters_below_me # None
               THEN Return
               ELSE i_pc' = "AssertionError" /\ UNCHANGED i_stack
          /\ UNCHANGED <<assume, previous_blstats, items_below_me,
                         letters_below_me, stop_updating>>
    /\ UNCHANGED <<tiles, carried, blstats, message, popup, role,
                  checked_item_pile, interesting_item_glyphs,
                  interesting_items, on_update, strategy, cmd, applicable,
                  to_pickup, p_letters, target, steps, p_old, chk,
                  progress,
                  blocked, rng, nonInv>>

\* a plausible slip in lines 393-394: the test of _stop_updating is left out
UpdateReentrant ==
    /\ i_pc = "update"
    /\ items' = carried
    /\ IF FALSE THEN
          /\ Return
          /\ UNCHANGED <<assume, previous_blstats, items_below_me,
                         letters_below_me, stop_updating>>
       ELSE IF previous_blstats = None \/ previous_blstats # Some(blstats) THEN
          /\ assume' = (previous_blstats # None)
          /\ previous_blstats' = Some(blstats)
          /\ items_below_me' = None
          /\ letters_below_me' = None
          /\ stop_updating' = TRUE
          /\ Call("get_items_below_me", "update_finally")
       ELSE
          /\ IF items_below_me # None /\ letters_below_me # None
               THEN Return
               ELSE i_pc' = "AssertionError" /\ UNCHANGED i_stack
          /\ UNCHANGED <<assume, previous_blstats, items_below_me,
                         letters_below_me, stop_updating>>
    /\ UNCHANGED <<tiles, carried, blstats, message, popup, role,
                  checked_item_pile, interesting_item_glyphs,
                  interesting_items, on_update, strategy, cmd, applicable,
                  to_pickup, p_letters, target, steps, p_old, chk,
                  progress,
                  blocked, rng, nonInv>>

\* lines 372-410: Inventory.update up to its call of get_items_below_me
Update ==
    /\ i_pc = "update"
    /\ items' = carried
    /\ IF stop_updating THEN
          /\ Return
          /\ UNCHANGED <<assume, previous_blstats, items_below_me,
                         letters_below_me, stop_updating>>
       ELSE IF previous_blstats = None \/ previous_blstats # Some(blstats) THEN
          /\ assume' = (previous_blstats # None)
          /\ previous_blstats' = Some(blstats)
          /\ items_below_me' = None
          /\ letters_below_me' = None
          /\ stop_updating' = TRUE
          /\ Call("get_items_below_me", "update_finally")
       ELSE
          /\ IF items_below_me # None /\ letters_below_me # None
               THEN Return
               ELSE i_pc' = "AssertionError" /\ UNCHANGED i_stack
          /\ UNCHANGED <<assume, previous_blstats, items_below_me,
                         letters_below_me, stop_updating>>
    /\ UNCHANGED <<tiles, carried, blstats, message, popup, role,
                  checked_item_pile, interesting_item_glyphs,
                  interesting_items, on_update, strategy, cmd, applicable,
                  to_pickup, p_letters, target, steps, p_old, chk,
                  progress,
                  blocked, rng, nonInv>>

\* lines 411-414: the re-read returned
UpdateFinally ==
    /\ i_pc = "update_finally"
    /\ stop_updating' = FALSE
    /\ IF items_below_me # None /\ letters_below_me # None
         THEN Return
         ELSE i_pc' = "AssertionError" /\ UNCHANGED i_stack
    /\ UNCHANGED <<tiles, carried, blstats, message, popup, role, items,
                  items_below_me, letters_below_me, previous_blstats,
                  checked_item_pile, interesting_item_glyphs,
                  interesting_items, on_update, strategy, cmd, assume,
                  applicable, to_pickup, p_letters, target, steps, p_old,
                  chk, progress,
                  blocked, rng, nonInv>>

\* lines 469-473: the scopes are entered, LOOK is sent unless the message is assumed
GetItemsBelowMe ==
    /\ i_pc = "get_items_below_me"
    /\ on_update' = Append(on_update, PositionFun)
    /\ IF ~assume
         THEN cmd' = LOOK /\ Call("step", "read_message")
         ELSE i_pc' = "read_message" /\ UNCHANGED <<cmd, i_stack>>
    /\ UNCHANGED <<tiles, carried, blstats, message, popup, role, items,
                  items_below_me, letters_below_me, previous_blstats,
                  stop_updating, checked_item_pile,
                  interesting_item_glyphs, interesting_items, strategy,
                  assume, applicable, to_pickup, p_letters, target, steps,
                  p_old, chk, progress,
                  blocked, rng, nonInv>>

\* lines 475-488 and 528-530
ReadMessage ==
    /\ i_pc = "read_message"
    /\ IF \/ popup.title = "Things that are here:"
          \/ message.text = "There are several objects here."
         THEN /\ cmd' = PICKUP(<<>>, "menu")
              /\ Call("step", "read_menu")
              /\ UNCHANGED <<items_below_me, letters_below_me, on_update>>
         ELSE /\ items_below_me' = Some(MessageItems)
              /\ letters_below_me' = Some([i \in 1..Len(MessageItems) |-> NoLetter])
              /\ on_update' = RemoveFun(on_update, OwnFun("position"))
              /\ Return
              /\ UNCHANGED cmd
    /\ UNCHANGED <<tiles, carried, blstats, message, popup, role, items,
                  previous_blstats, stop_updating, checked_item_pile,
                  interesting_item_glyphs, interesting_items, strategy,
                  assume, applicable, to_pickup, p_letters, target, steps,
                  p_old, chk, progress,
                  blocked, rng, nonInv>>

\* lines 489-530
ReadMenu ==
    /\ i_pc = "read_menu"
    /\ IF popup.title # "Pick up what?" /\ message.text \notin NothingToPickUp
         THEN /\ i_pc' = "AssertionError"
              /\ UNCHANGED <<i_stack, items_below_me, letters_below_me,
                             on_update>>
         ELSE /\ items_below_me' = Some(MenuItems)
              /\ letters_below_me' = Some(MenuItemLetters)
              /\ on_update' = RemoveFun(on_update, OwnFun("position"))
              /\ Return
    /\ UNCHANGED <<tiles, carried, blstats, message, popup, role, items,
                  previous_blstats, stop_updating, checked_item_pile,
                  interesting_item_glyphs, interesting_items, strategy,
                  cmd, assume, applicable, to_pickup, p_letters, target,
                  steps, p_old, chk, progress,
                  blocked, rng, nonInv>>

\* Agent.step (not in src/): one command is sent and its observation read
Step ==
    /\ i_pc = "step"
    /\ LET here == blstats
           there == blstats + cmd.dir
           taken == IF cmd.name = "PICKUP"
                      THEN Taken(tiles[here], cmd.letters) ELSE {}
           seen == Respond(cmd, tiles[there])
       IN  /\ tiles' = [tiles EXCEPT ![here] = @ \ taken]
           /\ carried' = carried \cup taken
           /\ blstats' = there
           /\ message' = seen.message
           /\ popup' = seen.popup
           /\ progress' = (progress \/ taken # {} \/ cmd.name = "MOVE")
    /\ steps' = steps + 1
    /\ Call("update", "checks")
    /\ UNCHANGED <<role, items, items_below_me, letters_below_me,
                  previous_blstats, stop_updating, checked_item_pile,
                  interesting_item_glyphs, interesting_items, on_update,
                  strategy, cmd, assume, applicable, to_pickup, p_letters,
                  target, p_old, chk,
                  blocked, rng, nonInv>>

\* Agent.step (not in src/): the registered checks run once the observation is integrated
Checks ==
    /\ i_pc = "checks"
    /\ IF \E i \in 1..Len(on_update) :
             on_update[i].kind = "items" /\ items_below_me = None
         THEN i_pc' = "TypeError" /\ UNCHANGED i_stack
       ELSE IF \E i \in 1..Len(on_update) : Fires(on_update[i])
         THEN i_pc' = "AgentPanic" /\ UNCHANGED i_stack
       ELSE Return
    /\ UNCHANGED <<tiles, carried, blstats, message, popup, role, items,
                  items_below_me, letters_below_me, previous_blstats,
                  stop_updating, checked_item_pile,
                  interesting_item_glyphs, interesting_items, on_update,
                  strategy, cmd, assume, applicable, to_pickup, p_letters,
                  target, steps, p_old, chk, progress,
                  blocked, rng, nonInv>>

\* lines 532-542: the selection's letters are taken and the tile is re-read under the guard
Pickup ==
    /\ i_pc = "pickup"
    /\ IF /\ Len(to_pickup) > 0
          /\ \A i \in 1..Len(to_pickup) : IndexIn(items_below_me[1], to_pickup[i]) > 0
          /\ Distinct(LettersFor(to_pickup))
         THEN /\ p_letters' = LettersFor(to_pickup)
              /\ p_old' = ItemPairs(items_below_me[1], letters_below_me[1])
              /\ on_update' = Append(on_update, ItemsFun)
              /\ assume' = FALSE
              /\ Call("get_items_below_me", "pickup_step")
         ELSE /\ i_pc' = "AssertionError"
              /\ UNCHANGED <<i_stack, p_letters, p_old, on_update, assume>>
    /\ UNCHANGED <<tiles, carried, blstats, message, popup, role, items,
                  items_below_me, letters_below_me, previous_blstats,
                  stop_updating, checked_item_pile,
                  interesting_item_glyphs, interesting_items, strategy,
                  cmd, applicable, to_pickup, target, steps, chk, progress,
                  blocked, rng, nonInv>>

\* lines 438-440 and 544-549: the guard's scope ends, PICKUP is sent
PickupStep ==
    /\ i_pc = "pickup_step"
    /\ on_update' = RemoveFun(on_update, OwnFun("items"))
    /\ cmd' = IF Len(items_below_me[1]) = 1
                THEN PICKUP(<<>>, "pickup")
                ELSE PICKUP(p_letters \o <<"MORE">>, "pickup")
    /\ i_pc' = "step"
    /\ UNCHANGED <<tiles, carried, blstats, message, popup, role, items,
                  items_below_me, letters_below_me, previous_blstats,
                  stop_updating, checked_item_pile,
                  interesting_item_glyphs, interesting_items, strategy,
                  i_stack, assume, applicable, to_pickup, p_letters,
                  target, steps, p_old, chk, progress,
                  blocked, rng, nonInv>>

\* lines 659-672: pickup_items_below_me up to its yield
CheckPickup ==
    /\ i_pc = "check_pickup"
    /\ LET glyphs == IF role = "RANGER" THEN RangerGlyphs ELSE {}
           objects == UNION {possible_objects_from_glyph(g) : g \in glyphs}
           checked == IF Len(items_below_me[1]) > 1
                        THEN MarkCheckedPile(checked_item_pile, blstats)
                        ELSE checked_item_pile
           selection == SelectSeq(items_below_me[1],
                                  LAMBDA n : Qualifies(n, objects))
       IN  /\ checked_item_pile' = checked
           /\ interesting_item_glyphs' = glyphs
           /\ interesting_items' = objects
           /\ to_pickup' = selection
           /\ applicable' = (selection # <<>>)
           /\ progress' = (progress \/ checked # checked_item_pile)
    /\ chk' = [who |-> "pickup_items_below_me", steps |-> steps,
               before |-> Snapshot]
    /\ Return
    /\ UNCHANGED <<tiles, carried, blstats, message, popup, role, items,
                  items_below_me, letters_below_me, previous_blstats,
                  stop_updating, on_update, strategy, cmd, assume,
                  p_letters, target, steps, p_old,
                  blocked, rng, nonInv>>

\* lines 635-647: go_to_item up to its yield
CheckGoToItem ==
    /\ i_pc = "check_go_to_item"
    /\ applicable' = (Candidates # {})
    /\ chk' = [who |-> "go_to_item", steps |-> steps, before |-> Snapshot]
    /\ Return
    /\ UNCHANGED <<tiles, carried, blstats, message, popup, role, items,
                  items_below_me, letters_below_me, previous_blstats,
                  stop_updating, checked_item_pile,
                  interesting_item_glyphs, interesting_items, on_update,
                  strategy, cmd, assume, to_pickup, p_letters, target,
                  steps, p_old, progress,
                  blocked, rng, nonInv>>

\* lines 649-655: a nearest candidate is drawn with agent.rng
GoToItem ==
    /\ i_pc = "go_to_item"
    /\ target' = NearestInOrder[randint(rng, Len(NearestInOrder)) + 1]
    /\ rng' = Advance(rng)
    /\ i_pc' = "go_to"
    /\ UNCHANGED <<tiles, carried, blstats, message, popup, role, items,
                  items_below_me, letters_below_me, previous_blstats,
                  stop_updating, checked_item_pile,
                  interesting_item_glyphs, interesting_items, on_update,
                  strategy, i_stack, cmd, assume, applicable, to_pickup,
                  p_letters, steps, p_old, chk, progress, blocked, nonInv>>

\* Agent.go_to under preempt (not in src/): before each step the interrupt is asked
GoTo ==
    /\ i_pc = "go_to"
    /\ IF blstats = target
         THEN Return
         ELSE Call("check_pickup", "interrupt")
    /\ UNCHANGED <<tiles, carried, blstats, message, popup, role, items,
                  items_below_me, letters_below_me, previous_blstats,
                  stop_updating, checked_item_pile,
                  interesting_item_glyphs, interesting_items, on_update,
                  strategy, cmd, assume, applicable, to_pickup, p_letters,
                  target, steps, p_old, chk, progress,
                  blocked, rng, nonInv>>

\* preempt (not in src/): an applicable interrupt aborts the walk and runs, then the node is evaluated anew; otherwise one step is taken
Interrupt ==
    /\ i_pc = "interrupt"
    /\ IF applicable
         THEN Call("pickup", "preempt") /\ UNCHANGED cmd
         ELSE /\ cmd' = MOVE(IF target > blstats THEN 1 ELSE -1)
              /\ Call("step", "go_to")
    /\ UNCHANGED <<tiles, carried, blstats, message, popup, role, items,
                  items_below_me, letters_below_me, previous_blstats,
                  stop_updating, checked_item_pile,
                  interesting_item_glyphs, interesting_items, on_update,
                  strategy, assume, applicable, to_pickup, p_letters,
                  target, steps, p_old, chk, progress,
                  blocked, rng, nonInv>>

\* line 629: go_to_item().preempt(agent, [pickup_items_below_me()]) is evaluated
Preempt ==
    /\ i_pc = "preempt"
    /\ Call("check_go_to_item", "preempt_body")
    /\ UNCHANGED <<tiles, carried, blstats, message, popup, role, items,
                  items_below_me, letters_below_me, previous_blstats,
                  stop_updating, checked_item_pile,
                  interesting_item_glyphs, interesting_items, on_update,
                  strategy, cmd, assume, applicable, to_pickup, p_letters,
                  target, steps, p_old, chk, progress,
                  blocked, rng, nonInv>>

\* preempt (not in src/): the walk starts if go_to_item is applicable
PreemptBody ==
    /\ i_pc = "preempt_body"
    /\ IF applicable
         THEN i_pc' = "go_to_item" /\ UNCHANGED i_stack
         ELSE Return
    /\ UNCHANGED <<tiles, carried, blstats, message, popup, role, items,
                  items_below_me, letters_below_me, previous_blstats,
                  stop_updating, checked_item_pile,
                  interesting_item_glyphs, interesting_items, on_update,
                  strategy, cmd, assume, applicable, to_pickup, p_letters,
                  target, steps, p_old, chk, progress,
                  blocked, rng, nonInv>>

\* repeat (not in src/): the repeated node is evaluated; both strategies ask pickup_items_below_me first
Eval ==
    /\ i_pc = "eval"
    /\ progress' = FALSE
    /\ Call("check_pickup", "first")
    /\ UNCHANGED <<tiles, carried, blstats, message, popup, role, items,
                  items_below_me, letters_below_me, previous_blstats,
                  stop_updating, checked_item_pile,
                  interesting_item_glyphs, interesting_items, on_update,
                  strategy, cmd, assume, applicable, to_pickup, p_letters,
                  target, steps, p_old, chk,
                  blocked, rng, nonInv>>

\* line 628 and sequence (not in src/): the body of pickup_items_below_me runs (line 673) if it is applicable, else the node is not applicable
First ==
    /\ i_pc = "first"
    /\ IF ~applicable THEN
          i_pc' = "not_applicable" /\ UNCHANGED i_stack
       ELSE IF strategy = "gather_items" THEN
          Call("pickup", "second")
       ELSE
          Call("pickup", "iteration_end")
    /\ UNCHANGED <<tiles, carried, blstats, message, popup, role, items,
                  items_below_me, letters_below_me, previous_blstats,
                  stop_updating, checked_item_pile,
                  interesting_item_glyphs, interesting_items, on_update,
                  strategy, cmd, assume, applicable, to_pickup, p_letters,
                  target, steps, p_old, chk, progress,
                  blocked, rng, nonInv>>

\* lines 628-630: the second part of the sequence
Second ==
    /\ i_pc = "second"
    /\ Call("preempt", "iteration_end")
    /\ UNCHANGED <<tiles, carried, blstats, message, popup, role, items,
                  items_below_me, letters_below_me, previous_blstats,
                  stop_updating, checked_item_pile,
                  interesting_item_glyphs, interesting_items, on_update,
                  strategy, cmd, assume, applicable, to_pickup, p_letters,
                  target, steps, p_old, chk, progress,
                  blocked, rng, nonInv>>

\* line 631: repeat
IterationEnd ==
    /\ i_pc = "iteration_end"
    /\ i_pc' = "eval"
    /\ UNCHANGED <<tiles, carried, blstats, message, popup, role, items,
                  items_below_me, letters_below_me, previous_blstats,
                  stop_updating, checked_item_pile,
                  interesting_item_glyphs, interesting_items, on_update,
                  strategy, i_stack, cmd, assume, applicable, to_pickup,
                  p_letters, target, steps, p_old, chk, progress,
                  blocked, rng, nonInv>>

InvNext ==
    \/ Boot \/ Update \/ UpdateFinally \/ GetItemsBelowMe
    \/ ReadMessage \/ ReadMenu \/ Step \/ Checks
    \/ Pickup \/ PickupStep \/ CheckPickup \/ CheckGoToItem
    \/ GoToItem \/ GoTo \/ Interrupt \/ Preempt
    \/ PreemptBody \/ Eval \/ First \/ Second
    \/ IterationEnd

GoNext == Preempt \/ CheckGoToItem \/ PreemptBody \/ GoToItem

\* Agent.step (not in src/) in a game that moves the agent: the command is
\* sent and the agent finds itself on another cell than the command leads to
Displaced ==
    /\ i_pc = "step"
    /\ steps < MaxSteps
    /\ \E there \in Pos \ {blstats + cmd.dir} :
       LET here == blstats
           taken == IF cmd.name = "PICKUP"
                      THEN Taken(tiles[here], cmd.letters) ELSE {}
           seen == Respond(cmd, tiles[there])
       IN  /\ tiles' = [tiles EXCEPT ![here] = @ \ taken]
           /\ carried' = carried \cup taken
           /\ blstats' = there
           /\ message' = seen.message
           /\ popup' = seen.popup
           /\ progress' = (progress \/ taken # {} \/ cmd.name = "MOVE")
    /\ steps' = steps + 1
    /\ Call("update", "checks")
    /\ UNCHANGED <<role, items, items_below_me, letters_below_me,
                  previous_blstats, stop_updating, checked_item_pile,
                  interesting_item_glyphs, interesting_items, on_update,
                  strategy, cmd, assume, applicable, to_pickup, p_letters,
                  target, p_old, chk,
                  blocked, rng, nonInv>>

\* an AgentPanic leaves the re-read: the scopes it passes drop their checks
\* (panic_if_position_changes, not in src/) and update's finally (lines
\* 408-409) clears _stop_updating
PanicUnwind ==
    /\ i_pc = "AgentPanic"
    /\ on_update' = <<>>
    /\ stop_updating' = (IF "update_finally" \in {i_stack[k] : k \in 1..Len(i_stack)}
                           THEN FALSE ELSE stop_updating)
    /\ i_stack' = <<>>
    /\ i_pc' = "on_panic"
    /\ UNCHANGED <<tiles, carried, blstats, message, popup, role, items,
                  items_below_me, letters_below_me, previous_blstats,
                  checked_item_pile, interesting_item_glyphs,
                  interesting_items, strategy, cmd, assume, applicable,
                  to_pickup, p_letters, target, steps, p_old, chk, progress,
                  blocked, rng, nonInv>>

\* a plausible slip in line 370: the recorded position survives the panic
OnPanicKeepsPosition ==
    /\ i_pc = "on_panic"
    /\ items_below_me' = None
    /\ letters_below_me' = None
    /\ Call("update", "recovered")
    /\ UNCHANGED <<previous_blstats, tiles, carried, blstats, message, popup, role, items,
                  stop_updating, checked_item_pile,
                  interesting_item_glyphs, interesting_items, on_update,
                  strategy, cmd, assume, applicable, to_pickup, p_letters,
                  target, steps, p_old, chk, progress,
                  blocked, rng, nonInv>>

\* lines 367-370, and the update the agent then makes (Agent, not in src/)
OnPanic ==
    /\ i_pc = "on_panic"
    /\ items_below_me' = None
    /\ letters_below_me' = None
    /\ previous_blstats' = None
    /\ Call("update", "recovered")
    /\ UNCHANGED <<tiles, carried, blstats, message, popup, role, items,
                  stop_updating, checked_item_pile,
                  interesting_item_glyphs, interesting_items, on_update,
                  strategy, cmd, assume, applicable, to_pickup, p_letters,
                  target, steps, p_old, chk, progress,
                  blocked, rng, nonInv>>

\* the agent walks a cell on: the step integrates its observation
Walk ==
    /\ i_pc \in {"updated", "recovered"}
    /\ steps < MaxSteps
    /\ \E dir \in {-1, 1} :
          /\ blstats + dir \in Pos
          /\ cmd' = MOVE(dir)
    /\ i_stack' = <<"updated">>
    /\ i_pc' = "step"
    /\ UNCHANGED <<tiles, carried, blstats, message, popup, role, items,
                  items_below_me, letters_below_me, previous_blstats,
                  stop_updating, checked_item_pile,
                  interesting_item_glyphs, interesting_items, on_update,
                  strategy, assume, applicable, to_pickup, p_letters,
                  target, steps, p_old, chk, progress,
                  blocked, rng, nonInv>>

PanicNext ==
    \/ Update \/ UpdateFinally \/ GetItemsBelowMe \/ ReadMessage \/ ReadMenu
    \/ Step \/ Displaced \/ Checks \/ PanicUnwind \/ OnPanic \/ Walk

\* what a cell can hold: nothing, one item, or a pile in which both, one or
\* none of the items is an arrow
TileKinds ==
    {{}, {"arrow"}, {"rock"}, {"arrow", "elven arrow"}, {"arrow", "rock"},
     {"dagger", "rock"}}

Strategies == {"repeat_pickup", "gather_items"}
Roles == {"RANGER", "other"}

\* lines 353-365, on a fresh level
InventoryInit ==
    /\ items = {}
    /\ items_below_me = None
    /\ letters_below_me = None
    /\ previous_blstats = None
    /\ stop_updating = FALSE
    /\ checked_item_pile = [c \in Pos |-> FALSE]
    /\ interesting_item_glyphs = {}
    /\ interesting_items = {}

ControlIdle ==
    /\ i_stack = <<>>
    /\ cmd = NoCommand
    /\ assume = FALSE
    /\ applicable = FALSE
    /\ to_pickup = <<>>
    /\ p_letters = <<>>
    /\ target = 0
    /\ steps = 0
    /\ p_old = <<>>
    /\ chk = <<>>
    /\ progress = FALSE

InvInit ==
    /\ tiles \in [Pos -> TileKinds]
    /\ carried = {}
    /\ blstats \in Pos
    /\ blocked = {}
    /\ rng \in Seeds
    /\ message = NoMessage
    /\ popup = NoPopup
    /\ role \in Roles
    /\ InventoryInit
    /\ strategy \in Strategies
    /\ i_pc = "boot"
    /\ ControlIdle

\* ------------------------------------------------------------ go_to_item
\* The second part of gather_items on levels where a cell may be out of
\* reach: the tile below the agent is read, piles may have been looked at.
GoTileKinds == {{}, {"rock"}, {"arrow"}, {"dagger", "rock"}}
GoBlocked(at) == {{}} \cup {{c} : c \in Pos \ {at}}
GoChecked ==
    {[c \in Pos |-> FALSE]} \cup {[c \in Pos |-> c = d] : d \in Pos}

GoInit ==
    /\ tiles \in [Pos -> GoTileKinds]
    /\ carried = {}
    /\ blstats \in Pos
    /\ blocked \in GoBlocked(blstats)
    /\ rng \in Seeds
    /\ message = NoMessage
    /\ popup = NoPopup
    /\ role \in Roles
    /\ items = {}
    /\ items_below_me = Some(MenuOf(tiles[blstats]))
    /\ letters_below_me =
           Some(IF Cardinality(tiles[blstats]) > 1
                  THEN LettersOf(MenuOf(tiles[blstats]))
                  ELSE [i \in 1..Cardinality(tiles[blstats]) |-> NoLetter])
    /\ previous_blstats = Some(blstats)
    /\ stop_updating = FALSE
    /\ checked_item_pile \in GoChecked
    /\ interesting_item_glyphs = (IF role = "RANGER" THEN RangerGlyphs ELSE {})
    /\ interesting_items =
           UNION {possible_objects_from_glyph(g) : g \in interesting_item_glyphs}
    /\ strategy = "gather_items"
    /\ i_pc = "preempt"
    /\ i_stack = <<"iteration_end">>
    /\ cmd = NoCommand
    /\ assume = FALSE
    /\ applicable = FALSE
    /\ to_pickup = <<>>
    /\ p_letters = <<>>
    /\ target = 0
    /\ steps = 0
    /\ p_old = <<>>
    /\ chk = <<>>
    /\ progress = FALSE

\* a fresh Inventory (lines 353-365) about to integrate the first
\* observation
PanicInit ==
    /\ tiles \in [Pos -> TileKinds]
    /\ carried = {}
    /\ blstats \in Pos
    /\ blocked = {}
    /\ rng = 0
    /\ message = NoMessage
    /\ popup = NoPopup
    /\ role = "other"
    /\ InventoryInit
    /\ strategy = "none"
    /\ i_pc = "update"
    /\ i_stack = <<"updated">>
    /\ cmd = NoCommand
    /\ assume = FALSE
    /\ applicable = FALSE
    /\ to_pickup = <<>>
    /\ p_letters = <<>>
    /\ target = 0
    /\ steps = 0
    /\ p_old = <<>>
    /\ chk = <<>>
    /\ progress = FALSE

InvIdle ==
    /\ tiles = <<>>
    /\ carried = {}
    /\ blstats = 0
    /\ blocked = {}
    /\ rng = 0
    /\ message = NoMessage
    /\ popup = NoPopup
    /\ role = "other"
    /\ InventoryInit
    /\ strategy = "none"
    /\ i_pc = "idle"
    /\ ControlIdle

\* ------------------------------------------------------- guard scopes
\* panic_if_items_below_me_change in whatever nesting its callers produce:
\* scopes are entered and left innermost first, a body may raise, and other
\* checks (panic_if_position_changes) are registered around and between.
ScopeKinds == {"items", "position"}
Exceptions == {"AgentPanic", "AssertionError"}

\* a check some other scope registered before the first one here
ForeignFun ==
    [kind |-> "position", id |-> 0, old_items |-> <<>>, old_letters |-> <<>>,
     old_pos |-> 0]

GuardInit ==
    /\ on_update \in {<<>>, <<ForeignFun>>}
    /\ g_scopes = <<>>
    /\ g_exc = "none"
    /\ g_log = <<>>
    /\ g_entered = 0

\* lines 421-436: fun is built and appended, the body starts
GuardEnter ==
    /\ g_exc = "none"
    /\ Len(g_scopes) < MaxNest
    /\ g_entered < MaxScopes
    /\ \E kind \in ScopeKinds :
          LET fun == [kind |-> kind, id |-> g_entered + 1, old_items |-> <<>>,
                      old_letters |-> <<>>, old_pos |-> 0]
          IN  /\ on_update' = Append(on_update, fun)
              /\ g_scopes' = Append(g_scopes, [fun |-> fun, before |-> on_update])
    /\ g_entered' = g_entered + 1
    /\ UNCHANGED <<g_exc, g_log, nonGuard>>

\* the body of the innermost scope raises
GuardBodyRaises ==
    /\ g_exc = "none"
    /\ g_scopes # <<>>
    /\ g_exc' \in Exceptions
    /\ UNCHANGED <<on_update, g_scopes, g_log, g_entered, nonGuard>>

\* lines 438-440: the innermost scope is left, by return or by the
\* exception in flight, which is caught outside the outermost scope
GuardExit ==
    /\ g_scopes # <<>>
    /\ LET scope == g_scopes[Len(g_scopes)]
       IN  /\ \E i \in 1..Len(on_update) : on_update[i] = scope.fun
           /\ on_update' = RemoveFun(on_update, scope.fun)
           /\ g_log' = [kind |-> scope.fun.kind, before |-> scope.before,
                        after |-> on_update', exc |-> g_exc]
    /\ g_scopes' = SubSeq(g_scopes, 1, Len(g_scopes) - 1)
    /\ g_exc' = IF Len(g_scopes) = 1 THEN "none" ELSE g_exc
    /\ UNCHANGED <<g_entered, nonGuard>>

GuardNext == GuardEnter \/ GuardBodyRaises \/ GuardExit

SimIdle ==
    /\ mode = "profile"
    /\ step_limit = {}
    /\ attrs = {}
    /\ step_count = 0
    /\ end_reason = NoReason
    /\ is_done = FALSE
    /\ agent = "None"
    /\ env_closed = FALSE
    /\ w_pc = "idle"
    /\ w_done = FALSE
    /\ w_obs = "running"
    /\ m_pc = "idle"
    /\ summary = <<>>
    /\ env_calls = 0
    /\ call_log = [calls |-> 0, count |-> 0]
    /\ late_steps = FALSE
    /\ timed_out = FALSE

GuardIdle ==
    /\ g_scopes = <<>>
    /\ g_exc = "none"
    /\ g_log = <<>>
    /\ g_entered = 0

\* ==================================================================== Item
\* objects.py is not in src/: the objects an Item can stand for, with twice
\* the expected damage of their dice
Object(name, weapon, small2, large2, hitbon) ==
    [name |-> name, weapon |-> weapon, damage_small2 |-> small2,
     damage_large2 |-> large2, hitbon |-> hitbon]
Objects ==
    {Object("bow", TRUE, 3, 3, 0), Object("crossbow", TRUE, 3, 3, 0),
     Object("arrow", TRUE, 7, 7, 0), Object("crossbow bolt", TRUE, 7, 9, 0),
     Object("dart", TRUE, 4, 3, 0), Object("long sword", TRUE, 9, 13, 0),
     Object("apple", FALSE, 0, 0, 0)}

\* what a method does: it returns a value or an assertion fails
Ret(v) == [raised |-> FALSE, value |-> <<v>>]
Raise == [raised |-> TRUE, value |-> <<>>]

\* bool() of a tuple: it is true unless the tuple is empty
TruthyTuple(t) == Len(t) > 0

\* lines 39-40: a pair is returned
is_ambiguous(item) == <<Len(item.objs) = 1, item.objs>>

\* lines 42-44
object(item) ==
    IF TruthyTuple(is_ambiguous(item)) THEN Ret(item.objs[1]) ELSE Raise

\* lines 36 and 48-49: the class of the first candidate
is_weapon(item) == item.objs[1].weapon

\* lines 73-77
is_launcher(item) ==
    IF ~is_weapon(item) THEN Ret(FALSE)
    ELSE IF object(item).raised THEN Raise
    ELSE Ret(object(item).value[1].name \in
                 {"bow", "elven bow", "orcish bow", "yumi", "crossbow", "sling"})

\* lines 79-96; launcher is <<>> for None
is_fired_projectile(item, launcher) ==
    LET arrows == {"arrow", "elven arrow", "orcish arrow", "silver arrow", "ya"}
    IN
    IF ~is_weapon(item) THEN Ret(FALSE)
    ELSE IF launcher = <<>> THEN
        IF object(item).raised THEN Raise
        ELSE Ret(object(item).value[1].name \in arrows \cup {"crossbow bolt"})
    ELSE IF object(launcher[1]).raised THEN Raise
    ELSE LET launcher_name == object(launcher[1]).value[1].name
         IN  IF launcher_name = "crossbow" THEN
                 IF object(item).raised THEN Raise
                 ELSE Ret(object(item).value[1].name = "crossbow bolt")
             ELSE IF launcher_name = "sling" THEN Ret(FALSE)
             ELSE IF launcher_name \notin {"bow", "elven bow", "orcish bow", "yumi"}
               THEN Raise
             ELSE IF object(item).raised THEN Raise
             ELSE Ret(object(item).value[1].name \in arrows)

\* lines 98-107
is_thrown_projectile(item) ==
    IF ~is_weapon(item) THEN Ret(FALSE)
    ELSE IF object(item).raised THEN Raise
    ELSE Ret(object(item).value[1].name \in
                 {"orcish dagger", "dagger silver", "athame dagger",
                  "elven dagger", "worm tooth", "knife", "stiletto",
                  "scalpel", "crysknife", "dart", "shuriken"})

\* lines 51-71, in fortieths: the share of the rolls 1..20 that hit, times
\* the damage
get_dps(item, large_monster) ==
    IF ~is_weapon(item) THEN Raise
    ELSE IF object(item).raised THEN Raise
    ELSE LET weapon == object(item).value[1]
             base2 == IF large_monster THEN weapon.damage_large2
                                       ELSE weapon.damage_small2
             dmg2 == IF item.modifier # <<>> /\ item.modifier[1] > 0
                       THEN base2 + 2 * item.modifier[1] ELSE base2
             to_hit == 1 + 6 + weapon.hitbon
                         + (IF item.modifier # <<>> THEN item.modifier[1] ELSE 0)
         IN  Ret(Cardinality({i \in 1..20 : to_hit > i}) * dmg2)

\* the lists of candidates, the empty one included
ObjLists ==
    {l \in UNION {[1..n -> Objects] : n \in 0..MaxObjs} : Distinct(l)}
Modifiers == {<<>>, <<-1>>, <<1>>}
LauncherArgs ==
    {<<>>} \cup
    {<<[objs |-> l, modifier |-> <<>>]>> :
        l \in {<<Object("bow", TRUE, 3, 3, 0)>>,
               <<Object("crossbow", TRUE, 3, 3, 0)>>,
               <<Object("bow", TRUE, 3, 3, 0), Object("crossbow", TRUE, 3, 3, 0)>>,
               <<Object("long sword", TRUE, 9, 13, 0)>>}}

ItemIdle ==
    /\ it_item = <<>>
    /\ it_pc = "idle"
    /\ it_call = <<>>
    /\ it_ret = <<>>

ItemInit ==
    /\ it_item = <<>>
    /\ it_pc = "new"
    /\ it_call = <<>>
    /\ it_ret = <<>>

\* lines 23-37, without a glyph
NewItem ==
    /\ it_pc = "new"
    /\ \E objs \in ObjLists, modifier \in Modifiers :
          IF Len(objs) >= 1
            THEN /\ it_item' = [objs |-> objs, modifier |-> modifier]
                 /\ it_pc' = "ready"
            ELSE /\ it_pc' = "AssertionError"
                 /\ UNCHANGED it_item
    /\ UNCHANGED <<it_call, it_ret, nonItem>>

Finish(fn, a, result) ==
    /\ it_call' = [fn |-> fn, args |-> a]
    /\ it_ret' = result.value
    /\ it_pc' = IF result.raised THEN "AssertionError" ELSE "returned"
    /\ UNCHANGED <<it_item, nonItem>>

CallObject ==
    /\ it_pc = "ready"
    /\ Finish("object", <<>>, object(it_item))

CallIsLauncher ==
    /\ it_pc = "ready"
    /\ Finish("is_launcher", <<>>, is_launcher(it_item))

CallIsFiredProjectile ==
    /\ it_pc = "ready"
    /\ \E launcher \in LauncherArgs :
          Finish("is_fired_projectile", <<launcher>>,
                 is_fired_projectile(it_item, launcher))

CallIsThrownProjectile ==
    /\ it_pc = "ready"
    /\ Finish("is_thrown_projectile", <<>>, is_thrown_projectile(it_item))

CallGetDps ==
    /\ it_pc = "ready"
    /\ \E large_monster \in BOOLEAN :
          Finish("get_dps", <<large_monster>>, get_dps(it_item, large_monster))

ItemNext ==
    \/ NewItem \/ CallObject \/ CallIsLauncher \/ CallIsFiredProjectile
    \/ CallIsThrownProjectile \/ CallGetDps


\* ------------------------------------------------------- run_simulations
\* the loop of run_simulations over a results file that outlives it.
\* --seeds and --visualize-ends are not given; an episode's record is its
\* seed and the class of its end_reason.
\* the seeds the episodes of a run can ask for
RunSeeds == 0..(1 + MaxEpisodes - 1)

RunIdle ==
    /\ args = <<>>
    /\ character_tries = <<>>
    /\ all_res = <<>>
    /\ done_seeds = {}
    /\ refs = <<>>
    /\ seed_offset = 0
    /\ r_pc = "idle"

\* lines 650-655 when the file is not there
RunInit ==
    /\ \E seed \in 0..1, episodes \in 1..MaxEpisodes, with_role \in BOOLEAN :
          args = [seed |-> seed, episodes |-> episodes, role |-> with_role,
                  panic_on_errors |-> FALSE, run |-> 1]
    /\ character_tries \in [RunSeeds -> 0..1]
    /\ all_res = <<>>
    /\ done_seeds = {}
    /\ refs = <<>>
    /\ seed_offset = 0
    /\ r_pc = "load"

\* lines 403-413, 435: the seed prepare_env gives the environment
prepare_env(a, tries, offset) ==
    IF a.role THEN a.seed + offset + tries[a.seed + offset] * 1000000000
    ELSE a.seed + offset

\* the places of a list that stay when those of drop are taken out
RECURSIVE Without(_, _, _)
Without(list, drop, i) ==
    IF i > Len(list) THEN <<>>
    ELSE (IF i \in drop THEN <<>> ELSE <<list[i]>>) \o Without(list, drop, i + 1)

\* lines 650-671
LoadResults ==
    /\ r_pc = "load"
    /\ LET seeds == {all_res[i].seed : i \in 1..Len(all_res)}
           idx_to_repeat == {i \in 1..Len(all_res) : all_res[i].end_reason = "exception"}
       IN  IF args.panic_on_errors /\ all_res # <<>>
             THEN /\ done_seeds' = seeds \ {all_res[i].seed : i \in idx_to_repeat}
                  /\ all_res' = Without(all_res, idx_to_repeat, 1)
             ELSE /\ done_seeds' = seeds
                  /\ UNCHANGED all_res
    /\ seed_offset' = 0
    /\ refs' = <<>>
    /\ r_pc' = "submit"
    /\ UNCHANGED <<args, character_tries, nonRun>>

\* lines 673-680: one pass of the loop over the seed offsets
Submit ==
    /\ r_pc = "submit"
    /\ IF seed_offset < args.episodes
         THEN /\ refs' = IF args.seed + seed_offset \in done_seeds
                           THEN refs ELSE Append(refs, seed_offset)
              /\ seed_offset' = seed_offset + 1
              /\ r_pc' = r_pc
         ELSE /\ r_pc' = "collect"
              /\ UNCHANGED <<refs, seed_offset>>
    /\ UNCHANGED <<args, character_tries, all_res, done_seeds, nonRun>>

\* lines 684-732: one pass of the loop over the handles; ray.wait gives
\* any of the episodes still out, and the file is written
Collect ==
    /\ r_pc = "collect"
    /\ refs # <<>>
    /\ \E i \in 1..Len(refs), reason \in {"natural", "exception"} :
          /\ all_res' = Append(all_res,
                               [seed |-> prepare_env(args, character_tries, refs[i]),
                                end_reason |-> reason])
          /\ refs' = Without(refs, {i}, 1)
    /\ UNCHANGED <<args, character_tries, done_seeds, seed_offset, r_pc, nonRun>>

\* line 734, and the program started again with the same seed, episodes
\* and role, with or without --panic-on-errors
RunAgain ==
    /\ r_pc = "collect"
    /\ refs = <<>>
    /\ args.run < MaxRuns
    /\ \E panic_on_errors \in BOOLEAN :
          args' = [args EXCEPT !.panic_on_errors = panic_on_errors,
                               !.run = args.run + 1]
    /\ r_pc' = "load"
    /\ UNCHANGED <<character_tries, all_res, done_seeds, refs, seed_offset, nonRun>>

RunNext == LoadResults \/ Submit \/ Collect \/ RunAgain

SimInit ==
    SimStart /\ DrawIdle /\ FieldIdle /\ InvIdle /\ on_update = <<>> /\ GuardIdle
    /\ ItemIdle /\ ScanIdle /\ o_first = <<>> /\ RunIdle
SimSpec == SimInit /\ [][SimNext]_vars

DrawSpecInit ==
    DrawInit /\ SimIdle /\ FieldIdle /\ InvIdle /\ on_update = <<>> /\ GuardIdle
    /\ ItemIdle /\ ScanIdle /\ o_first = <<>> /\ RunIdle
DrawSpec == DrawSpecInit /\ [][DrawNext]_vars

FieldSpecInit ==
    FieldInit /\ SimIdle /\ InvIdle /\ on_update = <<>> /\ GuardIdle
    /\ ItemIdle /\ ScanIdle /\ o_first = <<>> /\ RunIdle
FieldSpec == FieldSpecInit /\ [][FieldNext]_vars

InvSpecInit ==
    InvInit /\ on_update = <<>> /\ SimIdle /\ DrawIdle /\ FieldIdle /\ GuardIdle
    /\ ItemIdle /\ ScanIdle /\ o_first = <<>> /\ RunIdle
InvSpec == InvSpecInit /\ [][InvNext]_vars

GoSpecInit ==
    GoInit /\ on_update = <<>> /\ SimIdle /\ DrawIdle /\ FieldIdle /\ GuardIdle
    /\ ItemIdle /\ ScanIdle /\ o_first = <<>> /\ RunIdle
GoSpec == GoSpecInit /\ [][GoNext]_vars

PanicSpecInit ==
    PanicInit /\ on_update = <<>> /\ SimIdle /\ DrawIdle /\ FieldIdle /\ GuardIdle
    /\ ItemIdle /\ ScanIdle /\ o_first = <<>> /\ RunIdle
PanicSpec == PanicSpecInit /\ [][PanicNext]_vars

ActSpecInit ==
    ActInit /\ SimIdle /\ InvIdle /\ on_update = <<>> /\ GuardIdle
    /\ ItemIdle /\ ScanIdle /\ o_first = <<>> /\ RunIdle
ActSpec == ActSpecInit /\ [][ActNext]_vars

GuardSpecInit ==
    GuardInit /\ SimIdle /\ DrawIdle /\ FieldIdle /\ InvIdle /\ ItemIdle /\ ScanIdle /\ o_first = <<>> /\ RunIdle
GuardSpec == GuardSpecInit /\ [][GuardNext]_vars

StepSpecInit ==
    StepStart /\ DrawIdle /\ FieldIdle /\ InvIdle /\ on_update = <<>> /\ GuardIdle
    /\ ItemIdle /\ ScanIdle /\ o_first = <<>> /\ RunIdle
StepSpec == StepSpecInit /\ [][StepNext]_vars

ResetSpec == StepSpecInit /\ [][ResetNext]_vars

OrderSpecInit ==
    OrderInit /\ SimIdle /\ InvIdle /\ on_update = <<>> /\ GuardIdle
    /\ ItemIdle /\ ScanIdle /\ o_first = <<>> /\ RunIdle
OrderSpec == OrderSpecInit /\ [][OrderNext]_vars

ScanSpecInit ==
    ScanInit /\ SimIdle /\ InvIdle /\ on_update = <<>> /\ GuardIdle /\ ItemIdle
    /\ o_first = <<>> /\ RunIdle
ScanSpec == ScanSpecInit /\ [][ScanNext]_vars

ItemSpecInit ==
    ItemInit /\ SimIdle /\ DrawIdle /\ FieldIdle /\ InvIdle /\ on_update = <<>>
    /\ GuardIdle /\ ScanIdle /\ o_first = <<>> /\ RunIdle
ItemSpec == ItemSpecInit /\ [][ItemNext]_vars

RunSpecInit ==
    RunInit /\ SimIdle /\ DrawIdle /\ FieldIdle /\ InvIdle /\ on_update = <<>>
    /\ GuardIdle /\ ItemIdle /\ ScanIdle /\ o_first = <<>>
RunSpec == RunSpecInit /\ [][RunNext]_vars

\* ================================================================ claims

\* --- the four classes of end_reason, as run_simulations tells them apart
IsNatural(r) == Len(r) >= 2 /\ r[1] \in EndStatusNames /\ r[2] = ": "
IsStepLimit(r) == r = StepLimitReason
IsException(r) == Len(r) >= 1 /\ r[1] = "exception: "
IsTimeout(r) == r = TimeoutReason
ReasonClasses(r) ==
    {c \in {"natural", "steplimit", "exception", "timeout"} :
        \/ c = "natural" /\ IsNatural(r)
        \/ c = "steplimit" /\ IsStepLimit(r)
        \/ c = "exception" /\ IsException(r)
        \/ c = "timeout" /\ IsTimeout(r)}

\* C5: every summary returned by single_simulation carries a non-empty
\* end_reason that falls in exactly one of the four classes natural game
\* end, 'steplimit', 'exception: ...', 'timeout'.
C5_SummaryClassified ==
    summary # <<>> =>
        /\ summary[1] # NoReason
        /\ Cardinality(ReasonClasses(summary[1])) = 1

\* C6: when the wall-clock timeout fires, the returned summary's end_reason
\* is exactly 'timeout' and the worker performs no env.step after the
\* summary has been taken, in every interleaving of caller and worker.
C6_TimeoutReported ==
    (timed_out /\ summary # <<>>) =>
        /\ summary[1] = TimeoutReason
        /\ ~late_steps

\* C7: each call to EnvWrapper.step that returns has invoked env.step exactly
\* once and increased step_count by exactly 1, and step_count equals the
\* number of primitive actions sent to the game since the last reset.
C7_OneEnvStepPerStep ==
    /\ "step_count" \in attrs => step_count = env_calls
    /\ w_pc \in {"step_done", "step_limit", "step_tail"} =>
          /\ env_calls = call_log.calls + 1
          /\ step_count = call_log.count + 1

\* two calls of step have returned
C7_Witness == w_pc = "agent_main" /\ env_calls = 2 /\ step_count = 2

C2_NoPickupAfterChange ==
    (i_pc = "step" /\ cmd.site = "pickup") =>
        ItemPairs(items_below_me[1], letters_below_me[1]) = p_old

\* C3: with two distinct qualifying items on the agent's tile, repeatedly
\* evaluating pickup_items_below_me picks up both and then reports not
\* applicable: once the tile's item list is empty the pickup body is never
\* run again.
C3_NoPickupOnEmptiedTile ==
    (strategy = "repeat_pickup" /\ Cardinality(carried) = 2
        /\ tiles[blstats] = {}) =>
        i_pc \notin {"pickup", "pickup_step"}

\* C4: gather_items terminates in a world that stops changing, and every
\* iteration before it does makes progress: it picks up an item, marks a
\* pile as checked, or moves the agent.
C4_EveryIterationProgresses ==
    (strategy = "gather_items" /\ i_pc = "iteration_end") => progress

\* C8: panic_if_items_below_me_change registers its check in agent.on_update
\* only for the duration of its scope: when the scope is left, by return or
\* by an exception raised inside, agent.on_update is exactly the list it was
\* before entry, also when several such guards are nested.
C8_OnUpdateRestored ==
    (g_log # <<>> /\ g_log.kind = "items") => g_log.after = g_log.before

\* an inner scope, entered with checks already registered, was left by an
\* AgentPanic while an outer scope of the same kind is still open
C8_Witness ==
    /\ g_log # <<>>
    /\ g_log.kind = "items"
    /\ g_log.exc = "AgentPanic"
    /\ Len(g_log.before) >= 2
    /\ \E i \in 1..Len(g_scopes) : g_scopes[i].fun.kind = "items"

\* the statement an applicability check has just returned to
AfterCheck == chk # <<>> /\ i_pc \in {"first", "interrupt", "preempt_body"}

C10_RingOnly ==
    (d_call # <<>> /\ d_call.fn = "_draw_around") =>
        \A c \in Cells :
            LET dy == Abs(c[1] - d_call.y)
                dx == Abs(c[2] - d_call.x)
                r == d_call.radius
                onRing == dy <= r /\ dx <= r /\ (dy = r \/ dx = r)
                old == d_before[c]
                new == priority[c]
            IN  IF ~onRing THEN new = old
                ELSE IF old.nan THEN new.nan
                ELSE IF d_call.operation = "add"
                  THEN ~new.nan /\ new.v = old.v + d_call.value
                  ELSE ~new.nan /\ new.v >= old.v /\ new.v >= d_call.value
                       /\ new.v \in {old.v, d_call.value}

\* a ring of radius 2 that is partly out of bounds was added to the array
C10_Witness ==
    /\ d_call # <<>>
    /\ d_call.fn = "_draw_around"
    /\ d_call.radius = 2
    /\ d_call.operation = "add"
    /\ d_call.y = 0
    /\ priority # d_before

\* the cell i steps from (y, x) in direction dir
RayCell(y, x, dir, i) == <<y + dir[1] * i, x + dir[2] * i>>

\* C11: _draw_ranged never modifies a cell that lies beyond the first
\* non-walkable cell along any of the 8 rays from (y, x): a cell is modified
\* only if it is within the radius on some ray and every in-bounds cell of
\* that ray from the origin up to it, both included, is walkable.
C11_NoneBeyondBlocker ==
    (d_call # <<>> /\ d_call.fn = "_draw_ranged") =>
        \A c \in Cells :
            priority[c] # d_before[c] =>
                \E d \in 1..Len(Directions), i \in 0..(d_call.radius - 1) :
                    /\ c = RayCell(d_call.y, d_call.x, Directions[d], i)
                    /\ \A j \in 0..i :
                          LET b == RayCell(d_call.y, d_call.x, Directions[d], j)
                          IN  b \in Cells => walkable[b]

\* a ray was drawn up to a blocker, and a cell behind the blocker, within
\* the radius, kept its value
C11_Witness ==
    /\ d_call # <<>>
    /\ d_call.fn = "_draw_ranged"
    /\ \E d \in 1..Len(Directions), i \in 0..(d_call.radius - 1) :
          LET near == RayCell(d_call.y, d_call.x, Directions[d], i)
              wall == RayCell(d_call.y, d_call.x, Directions[d], i + 1)
              far == RayCell(d_call.y, d_call.x, Directions[d], i + 2)
          IN  /\ i + 2 <= d_call.radius - 1
              /\ near \in Cells /\ wall \in Cells /\ far \in Cells
              /\ priority[near] # d_before[near]
              /\ ~walkable[wall]
              /\ priority[far] = d_before[far]
              /\ ~d_before[far].nan

\* the cells the visible monsters stand on
MonsterCellsOf(monsters) ==
    {<<monsters[i].y, monsters[i].x>> : i \in 1..Len(monsters)}

\* C12: in the field build_priority_map returns, every cell that is not
\* walkable or is occupied by a visible monster is NaN, whatever ring or ray
\* contributions other monsters drew onto it and in whatever order the
\* monsters were processed.
C12_BlockedCellsAreNaN ==
    f_pc = "returned" =>
        \A c \in Cells :
            (~walkable[c] \/ c \in MonsterCellsOf(f_monsters)) =>
                priority[c].nan

\* two monsters next to each other, each of a kind that draws a ring over
\* the other's cell, and a field that is not NaN everywhere
C12_Witness ==
    /\ f_pc = "returned"
    /\ Len(f_monsters) = 2
    /\ f_monsters[1].mname = Newt
    /\ f_monsters[2].mname = Jackal
    /\ Chebyshev(f_monsters[1].y, f_monsters[1].x,
                 f_monsters[2].y, f_monsters[2].x) = 1
    /\ f_agent.hitpoints <= 8
    /\ \E c \in Cells : ~priority[c].nan /\ priority[c].v # 0

\* the entries of the returned list that are about the monster on (y, x)
EntriesAt(y, x) ==
    {k \in 1..Len(f_actions) : f_actions[k].y = y /\ f_actions[k].x = x}

\* the place in the monster list of the monster an entry is about
MonsterOf(e) ==
    CHOOSE i \in 1..Len(f_monsters) :
        f_monsters[i].y = e.y /\ f_monsters[i].x = e.x

\* the cells strictly between the agent and (y, x) on their common line
Between(y, x) ==
    {<<f_agent.y + Sign(y - f_agent.y) * k, f_agent.x + Sign(x - f_agent.x) * k>> :
        k \in 1..(Chebyshev(f_agent.y, f_agent.x, y, x) - 1)}

\* a pet or a non-walkable cell lies strictly between the agent and (y, x)
LineBlocked(y, x) ==
    \E c \in Between(y, x) : c \in f_agent.pets \/ ~walkable[c]

\* C13, as stated: for an entity adjacent to the agent, the entries
\* get_available_actions produces for it are exactly one melee entry with
\* positive priority and no ranged entry.
C13_AdjacentMeleeOnly ==
    f_pc = "listed" =>
        \A i \in 1..Len(f_monsters) :
            LET m == f_monsters[i]
            IN  Chebyshev(m.y, m.x, f_agent.y, f_agent.x) = 1 =>
                    /\ Cardinality(EntriesAt(m.y, m.x)) = 1
                    /\ \A k \in EntriesAt(m.y, m.x) :
                          /\ f_actions[k].kind = "melee"
                          /\ f_actions[k].priority > 0

\* C13, as the code has it: an adjacent entity gets exactly one melee entry,
\* which comes first; its priority is positive unless the entity is of the
\* slow, ranged-only kind or the agent has at most 8 hitpoints and wields a
\* launcher against an entity that is not faster. It gets a ranged entry as
\* well exactly when the agent has a ranged combination, with priority 0,
\* or -5 when the combination's launcher is not equipped.
C13_AdjacentEntries ==
    f_pc = "listed" =>
        \A i \in 1..Len(f_monsters) :
            LET m == f_monsters[i]
                at == EntriesAt(m.y, m.x)
                first == CHOOSE k \in at : \A j \in at : k <= j
                loadout == Len(f_agent.ranged_combinations) > 0
                wields == \E n \in 1..Len(f_agent.items) :
                              /\ f_agent.items[n].launcher
                              /\ f_agent.items[n].equipped
                unequipped ==
                    /\ f_agent.ranged_combinations[1].launcher # 0
                    /\ ~f_agent.items[
                           f_agent.ranged_combinations[1].launcher].equipped
            IN  Chebyshev(m.y, m.x, f_agent.y, f_agent.x) = 1 =>
                    /\ Cardinality(at) = IF loadout THEN 2 ELSE 1
                    /\ f_actions[first].kind = "melee"
                    /\ f_actions[first].priority > 0 <=>
                          /\ m.mname \notin ONLY_RANGED_SLOW_MONSTERS
                          /\ \/ f_agent.hitpoints > 8
                             \/ is_monster_faster(f_agent, m)
                             \/ ~wields
                    /\ \A k \in at \ {first} :
                          /\ f_actions[k].kind = "ranged"
                          /\ f_actions[k].priority =
                                IF unequipped THEN 0 - 5 ELSE 0

\* a healthy agent with a wielded launcher and ammunition next to a newt:
\* a melee entry of priority 10 and a ranged entry of priority 0
C13_Witness ==
    /\ f_pc = "listed"
    /\ Len(f_monsters) = 1
    /\ f_monsters[1].mname = Newt
    /\ Len(f_actions) = 2
    /\ f_actions[1].kind = "melee"
    /\ f_actions[1].priority = 10
    /\ f_actions[2].kind = "ranged"
    /\ f_actions[2].priority = 0

\* C14: without a ranged combination no entity gets a 'ranged' entry,
\* aligned or not, and an entity that is not on the agent's row, column or
\* diagonal never gets one.
C14_NoLoadoutNoRanged ==
    f_pc = "listed" =>
        \A k \in 1..Len(f_actions) :
            f_actions[k].kind = "ranged" =>
                /\ Len(f_agent.ranged_combinations) > 0
                /\ \/ f_actions[k].y = f_agent.y
                   \/ f_actions[k].x = f_agent.x
                   \/ Abs(f_actions[k].y - f_agent.y)
                        = Abs(f_actions[k].x - f_agent.x)

\* without a loadout, a monster on the agent's row at distance 3 and one
\* next to it: the list holds the melee entry only
C14_Witness ==
    /\ f_pc = "listed"
    /\ Len(f_agent.ranged_combinations) = 0
    /\ Len(f_monsters) = 2
    /\ f_monsters[1].y = f_agent.y
    /\ Abs(f_monsters[1].x - f_agent.x) = 3
    /\ Len(f_actions) = 1
    /\ f_actions[1].kind = "melee"

\* C15: if a pet or a non-walkable cell lies strictly between the agent and
\* an aligned entity, the ranged action against it has a negative priority,
\* strictly lower than that of every ranged action whose line of fire is
\* clear.
C15_BlockedLineDisqualified ==
    f_pc = "listed" =>
        \A k \in 1..Len(f_actions) :
            (f_actions[k].kind = "ranged"
                /\ LineBlocked(f_actions[k].y, f_actions[k].x)) =>
                /\ f_actions[k].priority < 0
                /\ \A j \in 1..Len(f_actions) :
                      (f_actions[j].kind = "ranged"
                          /\ ~LineBlocked(f_actions[j].y, f_actions[j].x)) =>
                          f_actions[k].priority < f_actions[j].priority

\* a ranged entry whose line is blocked at distance 3, and one with a clear
\* line against a monster next to the agent
C15_Witness ==
    /\ f_pc = "listed"
    /\ \E k, j \in 1..Len(f_actions) :
          /\ f_actions[k].kind = "ranged"
          /\ LineBlocked(f_actions[k].y, f_actions[k].x)
          /\ Chebyshev(f_agent.y, f_agent.x, f_actions[k].y, f_actions[k].x) = 3
          /\ f_actions[j].kind = "ranged"
          /\ ~LineBlocked(f_actions[j].y, f_actions[j].x)
          /\ Chebyshev(f_agent.y, f_agent.x, f_actions[j].y, f_actions[j].x) = 1

\* C16: melee_monster_priority is 1, plus 15 if the agent's hitpoints exceed
\* 8 or the monster is faster, minus 6 if the agent wields a launcher and
\* the monster is not faster, minus 100 if the monster is of the slow,
\* ranged-only kind; nothing else of the agent or the monster list counts.
C16_MeleeFormula ==
    f_pc = "listed" =>
        \A k \in 1..Len(f_actions) :
            f_actions[k].kind = "melee" =>
                LET m == f_monsters[MonsterOf(f_actions[k])]
                    faster == is_monster_faster(f_agent, m)
                    wields == \E i \in 1..Len(f_agent.items) :
                                  /\ f_agent.items[i].launcher
                                  /\ f_agent.items[i].equipped
                IN  f_actions[k].priority =
                        1 + (IF f_agent.hitpoints > 8 \/ faster THEN 15 ELSE 0)
                          - (IF wields /\ ~faster THEN 6 ELSE 0)
                          - (IF m.mname \in {FloatingEye, BlueJelly, BrownMold}
                               THEN 100 ELSE 0)

\* a weak agent with a wielded launcher next to a floating eye: 1 - 6 - 100
C16_Witness ==
    /\ f_pc = "listed"
    /\ \E k \in 1..Len(f_actions) :
          /\ f_actions[k].kind = "melee"
          /\ f_actions[k].priority = 0 - 105
          /\ f_agent.hitpoints = 8

\* C17: the list follows the order of the monster list: all entries of an
\* earlier monster precede all entries of a later one, melee before ranged
\* for one monster, and a monster has at most one entry of each kind.
C17_InputOrder ==
    f_pc = "listed" =>
        \A a, b \in 1..Len(f_actions) :
            a < b =>
                LET ma == MonsterOf(f_actions[a])
                    mb == MonsterOf(f_actions[b])
                IN  /\ ma <= mb
                    /\ ma = mb =>
                          /\ f_actions[a].kind = "melee"
                          /\ f_actions[b].kind = "ranged"

\* the ranged entry of the first monster precedes the melee entry of the
\* second, whose priority is higher, and that monster's ranged entry
C17_Witness ==
    /\ f_pc = "listed"
    /\ Len(f_actions) = 3
    /\ f_actions[1].kind = "ranged"
    /\ f_actions[2].kind = "melee"
    /\ f_actions[3].kind = "ranged"
    /\ f_actions[1].priority < f_actions[2].priority
    /\ f_actions[3].priority < f_actions[1].priority

\* ---------------------------------------------------------------- C18
C18_Mask ==
    {c \in Pos :
        /\ c # blstats
        /\ \/ Cardinality(tiles[c]) > 1 /\ ~checked_item_pile[c]
           \/ tiles[c] # {} /\ MenuOf(tiles[c])[1] \in interesting_item_glyphs}
C18_Reachable(c) ==
    \A b \in blocked : ~(blstats < b /\ b <= c) /\ ~(c <= b /\ b < blstats)
C18_Ties ==
    {c \in C18_Mask :
        /\ C18_Reachable(c)
        /\ \A o \in C18_Mask :
               C18_Reachable(o) => Abs(c - blstats) <= Abs(o - blstats)}

\* C18: when go_to_item is applicable its target is a candidate cell that
\* can be reached and that no reachable candidate is nearer than; among the
\* candidates at that distance the state of agent.rng before the draw fixes
\* which one it is; and go_to_item is applicable exactly when a reachable
\* candidate exists.
C18_NearestReachableCandidate ==
    /\ i_pc = "go_to" =>
          LET drawn == CHOOSE s \in Seeds : Advance(s) = rng
          IN  /\ target \in C18_Mask
              /\ C18_Reachable(target)
              /\ target \in C18_Ties
              /\ Cardinality({o \in C18_Ties : o < target})
                     = drawn % Cardinality(C18_Ties)
    /\ i_pc = "preempt_body" =>
          applicable = (\E c \in C18_Mask : C18_Reachable(c))

\* a candidate out of reach is as near as the target that was drawn
C18_Witness ==
    /\ i_pc = "go_to"
    /\ \E c \in C18_Mask :
          ~C18_Reachable(c) /\ Abs(c - blstats) <= Abs(target - blstats)

\* two reachable candidates are equally near and the second was drawn
C18_TieDrawn ==
    /\ i_pc = "go_to"
    /\ Cardinality(C18_Ties) = 2
    /\ \E o \in C18_Ties : o < target

\* candidates exist, none can be reached, and go_to_item declined
C18_Declined ==
    /\ i_pc = "iteration_end"
    /\ C18_Mask # {}
    /\ ~applicable

\* ---------------------------------------------------------------- C19
C19_WeaponMethods ==
    {"is_launcher", "is_fired_projectile", "is_thrown_projectile", "get_dps"}

\* C19: an Item has at least one candidate, and object(), and with it the
\* weapon methods called on a weapon, return only for an item with exactly
\* one candidate: with two or more the call ends in an AssertionError.
C19_ObjectNeedsOneCandidate ==
    /\ it_item # <<>> => Len(it_item.objs) >= 1
    /\ /\ it_pc = "returned"
       /\ \/ it_call.fn = "object"
          \/ it_call.fn \in C19_WeaponMethods /\ is_weapon(it_item)
       => Len(it_item.objs) = 1

\* an Item cannot be made of no candidate
C19_AtLeastOneCandidate ==
    it_item # <<>> => Len(it_item.objs) >= 1

\* object() returned the first of two candidates
C19_ReturnedCandidate ==
    /\ it_pc = "returned"
    /\ it_call.fn = "object"
    /\ Len(it_item.objs) = 2
    /\ it_ret = <<it_item.objs[1]>>

\* ---------------------------------------------------------------- C20
\* the reason a call leaves that reached the limit: the game's own if the
\* game ended on that step
C20_ReasonAtLimit ==
    IF w_obs = "running" THEN StepLimitReason ELSE NaturalReason(w_obs)

C20_NaturalAtLimit ==
    /\ \E L \in step_limit : step_count = L + 1
    /\ w_pc = "finished"
    /\ IsNatural(end_reason)

\* ---------------------------------------------------------------- C21
\* C21: if env.main raises anything but the timeout, at any point of the
\* episode, the reset included, single_simulation does not propagate it: it
\* returns a summary, whose end_reason starts with 'exception: '.
C21_ExceptionReported ==
    (w_pc = "raised" /\ ~timed_out) =>
        /\ m_pc # "raised"
        /\ summary # <<>> => IsException(summary[1])

\* ---------------------------------------------------------------- C22
\* the cells of the 8 rays from the origin of the call, as far as the
\* radius lets a ray go
C22_OnRay(c) ==
    \E d \in 1..Len(Directions), i \in 0..(d_call.radius - 1) :
        c = RayCell(d_call.y, d_call.x, Directions[d], i)

\* C22: after _draw_ranged with operation 'add' on an all-walkable grid each
\* cell on the 8 directions within the ray's reach has increased by exactly
\* the value, once, and every other cell is unchanged.
C22_OncePerCell ==
    (/\ d_call # <<>>
     /\ d_call.fn = "_draw_ranged"
     /\ d_call.operation = "add"
     /\ \A c \in Cells : walkable[c]) =>
        \A c \in Cells :
            priority[c] = IF C22_OnRay(c)
                            THEN FloatAdd(d_before[c], d_call.value)
                            ELSE d_before[c]

C24_UpdateLeavesTileRead ==
    [][/\ (/\ \/ i_pc = "update" /\ ~stop_updating
              \/ i_pc = "update_finally"
           /\ i_stack # <<>>
           /\ i_pc' = Head(i_stack)) =>
             /\ items_below_me' # None
             /\ letters_below_me' # None
             /\ Len(items_below_me'[1]) = Len(letters_below_me'[1])
       /\ i_pc = "on_panic" =>
             i_pc' = "update" /\ ~stop_updating' /\ items_below_me' = None
       /\ (i_pc = "update" /\ i_stack = <<"recovered">>) =>
             i_pc' = "get_items_below_me" /\ ~assume'
       /\ (i_pc = "get_items_below_me"
             /\ i_stack = <<"update_finally", "recovered">>) =>
             i_pc' = "step" /\ cmd' = LOOK
      ]_vars

\* a panic left the re-read, and the update after on_panic has read the tile
\* the agent was moved to
C24_Witness ==
    /\ i_pc = "recovered"
    /\ items_below_me = Some(MenuOf(tiles[blstats]))
    /\ tiles[blstats] # {}
    /\ previous_blstats = Some(blstats)
    /\ ~stop_updating

\* ---------------------------------------------------------------- C25
\* the calls of get_items_below_me by update that are in progress
C25_Rereads == {k \in 1..Len(i_stack) : i_stack[k] = "update_finally"}

\* C25: _stop_updating is True only while update's own call of
\* get_items_below_me is executing, up to the finally that ends it: it is
\* False once update has returned or an exception has left it, and the
\* updates the steps of the re-read trigger start no second re-read.
C25_RereadsNeverNest ==
    /\ stop_updating <=> (C25_Rereads # {} \/ i_pc = "update_finally")
    /\ Cardinality(C25_Rereads) <= 1
    /\ i_pc = "update_finally" => C25_Rereads = {}

\* a step of the re-read has the agent elsewhere, and the update it
\* triggers is about to return at once
C25_Witness ==
    /\ i_pc = "update"
    /\ stop_updating
    /\ previous_blstats # Some(blstats)
    /\ Head(i_stack) = "checks"

\* ---------------------------------------------------------------- C26
\* C26: pickup(items) requires a non-empty selection of items that are all
\* in items_below_me, with pairwise distinct letters; it then sends one
\* PICKUP command, bare when exactly one item lies on the tile and otherwise
\* followed by the letters of the selection and MORE, so that only the
\* selected items are picked up.
C26_OnlySelectionTaken ==
    [][(i_pc = "step" /\ cmd.site = "pickup") =>
          /\ Len(to_pickup) > 0
          /\ cmd.letters = IF Cardinality(tiles[blstats]) = 1
                             THEN <<>>
                             ELSE p_letters \o <<"MORE">>
          /\ (carried' \ carried) \subseteq
                 {to_pickup[k] : k \in 1..Len(to_pickup)}
      ]_vars

\* the monster ranged_monster_priority is called for
C27_Monster == <<f_monsters[1].y, f_monsters[1].x>>

\* the scan has been entered: the monster is aligned with the agent, off the
\* agent's cell, and the agent has a ranged combination
C27_Scanning ==
    /\ Aligned(f_agent, C27_Monster[1], C27_Monster[2])
    /\ C27_Monster # <<f_agent.y, f_agent.x>>
    /\ Len(f_agent.ranged_combinations) > 0
    /\ f_pc # "ranged"

\* C27: for an entity aligned with the agent and not on the agent's cell,
\* the line-of-fire scan never fails a bounds assertion, reads the cells
\* from the one next to the agent outwards, one per pass and each inside
\* the grid, stops after at most distance - 1 passes, and has read exactly
\* the cells strictly between the agent and the entity when it returns,
\* with the result of ranged_monster_priority.
C27_ScanStaysBetween ==
    C27_Scanning =>
        LET dist == Chebyshev(f_agent.y, f_agent.x, C27_Monster[1], C27_Monster[2])
            dir == <<Sign(C27_Monster[1] - f_agent.y),
                     Sign(C27_Monster[2] - f_agent.x)>>
        IN  /\ f_pc \in {"scan", "returned"}
            /\ Len(s_seen) <= dist - 1
            /\ \A k \in 1..Len(s_seen) :
                  s_seen[k] = RayCell(f_agent.y, f_agent.x, dir, k)
            /\ s_at = RayCell(f_agent.y, f_agent.x, dir, Len(s_seen) + 1)
            /\ s_at \in ActCells
            /\ f_pc = "returned" =>
                  /\ Len(s_seen) = dist - 1
                  /\ {s_seen[k] : k \in 1..Len(s_seen)}
                        = Between(C27_Monster[1], C27_Monster[2])
                  /\ s_at = C27_Monster
                  /\ s_ret = ranged_monster_priority(f_agent, walkable,
                                C27_Monster[1], C27_Monster[2], Newt)

\* C27 happens: a scan over two cells, one of them a wall, has returned
C27_Witness ==
    /\ C27_Scanning
    /\ f_pc = "returned"
    /\ Len(s_seen) = 2
    /\ \E k \in 1..2 : ~walkable[s_seen[k]]
    /\ C27_Monster[1] < f_agent.y

\* the entries of an action list, whatever their order
C28_Entries(actions) == {actions[i] : i \in 1..Len(actions)}

\* C28: the field build_priority_map returns for a list of monsters is the
\* field it returns for any other order of the same monsters, and the two
\* action lists hold the same entries.
C28_OrderOfMonstersIrrelevant ==
    (f_pc = "returned" /\ o_first # <<>>) =>
        /\ priority = o_first[1].priority
        /\ Len(f_actions) = Len(o_first[1].actions)
        /\ C28_Entries(f_actions) = C28_Entries(o_first[1].actions)

\* C28 happens: two monsters next to each other, each in the ring the other
\* draws, were given in one order and then in the other
C28_Witness ==
    /\ f_pc = "returned"
    /\ o_first # <<>>
    /\ Len(f_monsters) = 2
    /\ f_monsters # o_first[1].monsters
    /\ adjacent(<<f_monsters[1].y, f_monsters[1].x>>,
                <<f_monsters[2].y, f_monsters[2].x>>)
    /\ f_monsters[1].mname = Jackal
    /\ f_monsters[2].mname = Newt
    /\ \E c \in Cells : ~priority[c].nan /\ priority[c].v # 0

\* the seeds of the episodes that are out
C29_Submitted == {prepare_env(args, character_tries, refs[i]) : i \in 1..Len(refs)}

\* C29, as stated: no episode is out whose seed is already in the records,
\* and no two records carry the same seed, with or without a role.
C29_OneRecordPerSeed ==
    /\ r_pc = "collect" =>
          \A i \in 1..Len(all_res) : all_res[i].seed \notin C29_Submitted
    /\ \A i, j \in 1..Len(all_res) :
          i # j => all_res[i].seed # all_res[j].seed

====
